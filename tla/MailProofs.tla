----------------------------- MODULE MailProofs -----------------------------
(***************************************************************************)
(* What TLAPS proves of Mail, for any number of letters, projects and rows *)
(* of any content, and any recipients.                                     *)
(***************************************************************************)
EXTENDS Mail, FiniteSetTheorems, SequenceTheorems, WellFoundedInduction, TLAPS

-----------------------------------------------------------------------------
(* What MailSafe needs to be inductive: how far a letter has got, what it  *)
(* has counted so far, and who has taken it.                               *)

\* What the columns hold: a form, what a letter has read, and a letter.
FormFields == FormsSent \cup {{}}
GotRow == [tasks: Seq(TaskRows), files: [Authored -> Seq(LogRows)], journal: [Authored -> Seq(LogRows)],
           filled: FormFields, counted: [files: Nat, journal: Nat]]
LetterRow == [pc: {"idle", "tasks", "form", "files", "journal", "send", "log", "done", "failed"},
              kind: LetterKinds \cup {"none"}, about: SUBSET Authored, to: Seq(Addresses), got: GotRow,
              left: SUBSET Authored, at: SUBSET Authored, status: {0, 200, 500}]

\* The rows that listings hold for the projects of a set.
Cells(rows, P) == UNION {{p} \X DOMAIN rows[p] : p \in P}

\* Where the composing of a letter is. A digest has counted what it has read,
\* but for the files of the project whose journal comes next.
LetterOK(m) ==
    /\ m.left \subseteq m.about /\ m.at \subseteq m.about \ m.left
    /\ m.pc # "idle" => m.kind # "none"
    /\ m.kind \notin {"none", "digest"} => \E p \in Authored : m.about = {p}
    /\ m.pc \notin {"journal", "failed"} => m.at = {}
    /\ m.pc = "journal" => \E p \in Authored : m.at = {p}
    /\ m.kind = "digest" => m.pc \in {"files", "journal", "send", "log", "done", "failed"}
    /\ \A p \in m.left : m.got.files[p] = <<>>
    /\ \A p \in m.left \cup m.at : m.got.journal[p] = <<>>
    /\ m.kind = "digest" =>
         /\ m.got.counted.files = Cardinality(Cells(m.got.files, Authored \ m.at))
         /\ m.got.counted.journal = Cardinality(Cells(m.got.journal, Authored))

\* The tables hold rows.
TablesOK ==
    /\ tasks \in [Authored -> Seq(TaskRows)]
    /\ files \in [Authored -> Seq(LogRows)] /\ journal \in [Authored -> Seq(LogRows)]
    /\ filled \in [Authored -> FormFields]

\* Every letter is as it should be; those taken have been sent, an accepted one
\* was taken, one whose handling is over is in the report, and the report calls
\* accepted only what was taken.
MailInv ==
    /\ TablesOK
    /\ letter \in [Letters -> LetterRow] /\ \A l \in Letters : LetterOK(letter[l])
    /\ taken \subseteq Letters
    /\ \A l \in taken : letter[l].pc \in {"log", "done", "failed"}
    /\ \A l \in Letters : letter[l].pc = "log" /\ letter[l].status = 200 => l \in taken
    /\ \A l \in Letters : letter[l].pc = "done" => \E r \in report : r.letter = l
    /\ report \subseteq [letter: Letters, status: {0, 200, 500}]
    /\ \A r \in report : r.status = 200 => r.letter \in taken
-----------------------------------------------------------------------------
(* Listing a finite set of numbers in ascending order, as Since does.      *)

\* s lists S.
Ascending(s, S) == /\ s \in [1..Cardinality(S) -> S]
                   /\ \A a, b \in 1..Cardinality(S) : a < b => s[a] < s[b]

\* A set of natural numbers that is not empty has a least.
LEMMA LeastNatural ==
  ASSUME NEW S \in SUBSET Nat, S # {}
  PROVE  \E m \in S : \A k \in S : m <= k
<1> DEFINE R == {ss \in Nat \X Nat : ss[1] < ss[2]}
<1>1. IsWellFoundedOn(R, Nat)
  BY NatLessThanWellFounded DEF OpToRel
<1>2. \E m \in S : \A k \in S : ~ (<<k, m>> \in R)
  <2> HIDE DEF R
  <2> QED
    BY <1>1, WFMin, Zenon
<1>3. \A k, m \in Nat : ~ (<<k, m>> \in R) => m <= k
  OBVIOUS
<1> QED
  BY <1>2, <1>3

\* A finite set of ids can be listed in ascending order (ORDER BY id): its
\* least member first, then the rest, which is smaller.
LEMMA CanBeListed ==
  ASSUME NEW S \in SUBSET Nat, IsFiniteSet(S)
  PROVE  \E s : Ascending(s, S)
<1> DEFINE Odd(T) == IsFiniteSet(T) /\ ~ \E s : Ascending(s, T)
           Sizes == {n \in Nat : \E T \in SUBSET Nat : Odd(T) /\ Cardinality(T) = n}
<1> SUFFICES ASSUME Odd(S) PROVE FALSE
  OBVIOUS
<1>1. Cardinality(S) \in Sizes
  BY FS_CardinalityType
<1>2. PICK n \in Sizes : \A k \in Sizes : n <= k
  <2> HIDE DEF Sizes
  <2>1. Sizes \in SUBSET Nat
    BY DEF Sizes
  <2> QED
    BY <1>1, <2>1, LeastNatural
<1>3. PICK T \in SUBSET Nat : Odd(T) /\ Cardinality(T) = n
  OBVIOUS
<1>4. T # {}
  <2> SUFFICES ASSUME T = {} PROVE FALSE
    OBVIOUS
  <2>1. Cardinality(T) = 0
    BY FS_EmptySet
  <2>2. Ascending([a \in 1..0 |-> 0], T)
    BY <2>1 DEF Ascending
  <2> QED
    BY <1>3, <2>2
<1>5. PICK m \in T : \A k \in T : m <= k
  BY <1>4, LeastNatural
<1> DEFINE Rest == T \ {m}
<1>6. IsFiniteSet(Rest) /\ Cardinality(Rest) = n - 1 /\ n - 1 \in Nat
  <2>1. IsFiniteSet(Rest) /\ Cardinality(Rest) = n - 1
    BY <1>3, FS_RemoveElement
  <2> QED
    BY <2>1, FS_CardinalityType
<1>7. PICK f : Ascending(f, Rest)
  <2> SUFFICES ASSUME Odd(Rest) PROVE FALSE
    BY <1>6
  <2>1. n - 1 \in Sizes
    BY <1>6
  <2> QED
    BY <1>2, <2>1
<1> DEFINE g == [a \in 1..n |-> IF a = 1 THEN m ELSE f[a - 1]]
<1>8. /\ f \in [1..(n - 1) -> Rest]
      /\ \A a, b \in 1..(n - 1) : a < b => f[a] < f[b]
  BY <1>6, <1>7 DEF Ascending
<1>9. \A a \in 1..n : a # 1 => a - 1 \in 1..(n - 1) /\ f[a - 1] \in T /\ m < f[a - 1]
  <2> TAKE a \in 1..n
  <2> HAVE a # 1
  <2>1. a - 1 \in 1..(n - 1)
    OBVIOUS
  <2>2. f[a - 1] \in Rest
    BY <1>8, <2>1
  <2>3. f[a - 1] \in T /\ f[a - 1] # m
    BY <2>2
  <2>4. m <= f[a - 1] /\ m \in Nat /\ f[a - 1] \in Nat
    BY <1>5, <2>3
  <2> HIDE DEF Rest
  <2> QED
    BY <2>1, <2>3, <2>4
<1>10. g \in [1..n -> T]
  BY <1>9
<1>11. \A a, b \in 1..n : a < b => g[a] < g[b]
  <2> TAKE a, b \in 1..n
  <2> HAVE a < b
  <2>1. b # 1 /\ g[b] = f[b - 1]
    OBVIOUS
  <2>2. CASE a = 1
    BY <1>9, <2>1, <2>2
  <2>3. CASE a # 1
    <3>1. a - 1 \in 1..(n - 1) /\ b - 1 \in 1..(n - 1) /\ a - 1 < b - 1
      BY <1>9, <2>1, <2>3
    <3>2. f[a - 1] < f[b - 1]
      BY <1>8, <3>1
    <3> QED
      BY <2>1, <2>3, <3>2
  <2> QED
    BY <2>2, <2>3
<1>12. Ascending(g, T)
  <2> HIDE DEF g
  <2> QED
    BY <1>3, <1>10, <1>11 DEF Ascending
<1> QED
  BY <1>3, <1>12
-----------------------------------------------------------------------------
(* The rows a letter reads, and how many they are.                         *)

\* Rows since the cut-off are rows.
LEMMA SinceListed ==
  ASSUME NEW kind, NEW rows \in Seq(LogRows)
  PROVE  Since(kind, rows) \in Seq(LogRows)
<1> DEFINE late == {i \in DOMAIN rows : rows[i].day >= Today - Days}
           n == Cardinality(late)
           at == CHOOSE s \in [1 .. n -> late] : \A a, b \in 1 .. n : a < b => s[a] < s[b]
<1>1. Len(rows) \in Nat /\ DOMAIN rows = 1 .. Len(rows) /\ \A i \in 1 .. Len(rows) : rows[i] \in LogRows
  BY LenProperties, ElementOfSeq
<1>2. late \in SUBSET Nat /\ late \subseteq 1 .. Len(rows)
  BY <1>1
<1>3. IsFiniteSet(late) /\ n \in Nat
  <2>1. IsFiniteSet(1 .. Len(rows))
    BY <1>1, FS_Interval
  <2> HIDE DEF late
  <2> QED
    BY <1>2, <2>1, FS_Subset, FS_CardinalityType
<1>4. at \in [1 .. n -> late]
  <2> HIDE DEF late
  <2>1. \E s \in [1 .. n -> late] : \A a, b \in 1 .. n : a < b => s[a] < s[b]
    BY <1>2, <1>3, CanBeListed DEF Ascending
  <2> QED
    BY <2>1
<1>5. Since(kind, rows) = IF kind = "snapshot" THEN rows ELSE [a \in 1 .. n |-> rows[at[a]]]
  BY DEF Since
<1> HIDE DEF at, n, late
<1>6. [a \in 1 .. n |-> rows[at[a]]] \in [1 .. n -> LogRows]
  BY <1>1, <1>2, <1>4
<1>7. [a \in 1 .. n |-> rows[at[a]]] \in Seq(LogRows)
  BY <1>3, <1>6, SeqDef
<1> QED
  BY <1>5, <1>7

\* A list has as many places as its length says.
LEMMA DomainCounted ==
  ASSUME NEW rows, NEW S, rows \in Seq(S)
  PROVE  IsFiniteSet(DOMAIN rows) /\ Cardinality(DOMAIN rows) = Len(rows) /\ Len(rows) \in Nat
<1>1. PICK n \in Nat : n = Len(rows)
  BY LenProperties
<1>2. DOMAIN rows = 1 .. n
  BY <1>1, LenProperties
<1>3. IsFiniteSet(1 .. n) /\ Cardinality(1 .. n) = IF 1 > n THEN 0 ELSE n - 1 + 1
  BY FS_Interval
<1> QED
  BY <1>1, <1>2, <1>3

\* The rows are finitely many.
LEMMA CellsFinite ==
  ASSUME NEW f \in [Authored -> Seq(LogRows)], NEW P \in SUBSET Authored
  PROVE  IsFiniteSet(Cells(f, P)) /\ Cardinality(Cells(f, P)) \in Nat
<1> DEFINE Family == {{p} \X DOMAIN f[p] : p \in P}
           g == [p \in P |-> {p} \X DOMAIN f[p]]
<1>1. IsFiniteSet(P)
  BY MailAssumption, FS_Subset
<1>2. g \in Surjection(P, Family)
  BY DEF Surjection
<1>3. IsFiniteSet(Family)
  BY <1>1, <1>2, FS_Surjection
<1>4. ASSUME NEW T \in Family PROVE IsFiniteSet(T)
  <2>1. PICK p \in P : T = {p} \X DOMAIN f[p]
    OBVIOUS
  <2>2. f[p] \in Seq(LogRows)
    OBVIOUS
  <2>3. IsFiniteSet({p}) /\ IsFiniteSet(DOMAIN f[p])
    BY <2>2, FS_Singleton, DomainCounted
  <2> QED
    BY <2>1, <2>3, FS_Product
<1>5. IsFiniteSet(Cells(f, P))
  BY <1>3, <1>4, FS_UNION DEF Cells
<1> QED
  BY <1>5, FS_CardinalityType

\* Only the listings of the set matter, and empty ones do not.
LEMMA CellsSame ==
  ASSUME NEW f, NEW g, NEW P, NEW Q,
         \A p \in P \cap Q : DOMAIN f[p] = DOMAIN g[p],
         \A p \in P \ Q : DOMAIN f[p] = {}, \A p \in Q \ P : DOMAIN g[p] = {}
  PROVE  Cells(f, P) = Cells(g, Q)
<1>1. ASSUME NEW c \in Cells(f, P) PROVE c \in Cells(g, Q)
  <2>1. PICK p \in P : c \in {p} \X DOMAIN f[p]
    BY DEF Cells
  <2>2. p \in Q /\ c \in {p} \X DOMAIN g[p]
    BY <2>1
  <2> QED
    BY <2>2 DEF Cells
<1>2. ASSUME NEW c \in Cells(g, Q) PROVE c \in Cells(f, P)
  <2>1. PICK p \in Q : c \in {p} \X DOMAIN g[p]
    BY DEF Cells
  <2>2. p \in P /\ c \in {p} \X DOMAIN f[p]
    BY <2>1
  <2> QED
    BY <2>2 DEF Cells
<1> QED
  BY <1>1, <1>2

\* A project adds the length of its listing.
LEMMA CellsGrow ==
  ASSUME NEW f \in [Authored -> Seq(LogRows)], NEW p \in Authored
  PROVE  Cardinality(Cells(f, Authored)) = Cardinality(Cells(f, Authored \ {p})) + Len(f[p])
<1> DEFINE A == Cells(f, Authored \ {p})
           B == {p} \X DOMAIN f[p]
<1>1. Cells(f, Authored) = A \cup B
  BY DEF Cells
<1>2. A \cap B = {}
  BY DEF Cells
<1>3. PICK n \in Nat : n = Len(f[p]) /\ IsFiniteSet(DOMAIN f[p]) /\ Cardinality(DOMAIN f[p]) = n
  BY DomainCounted
<1>4. IsFiniteSet({p}) /\ Cardinality({p}) = 1
  BY FS_Singleton
<1>5. IsFiniteSet(B) /\ Cardinality(B) = 1 * n
  BY <1>3, <1>4, FS_Product
<1>6. IsFiniteSet(A) /\ Cardinality(A) \in Nat
  BY CellsFinite
<1>7. Cardinality(A \cap B) = 0
  BY <1>2, FS_EmptySet
<1> HIDE DEF A, B
<1>8. Cardinality(A \cup B) = Cardinality(A) + Cardinality(B) - Cardinality(A \cap B)
  BY <1>5, <1>6, FS_Union
<1>9. Cardinality(B) = n
  BY <1>5
<1> QED
  BY <1>1, <1>3, <1>6, <1>7, <1>8, <1>9 DEF A

-----------------------------------------------------------------------------
(* Every step keeps MailInv: first the queries of a letter.                *)

\* A step of a letter that is still being composed.
LEMMA Composing ==
  ASSUME MailInv, NEW l \in Letters, letter[l].pc \notin {"log", "done", "failed"},
         NEW m \in LetterRow, LetterOK(m), m.pc \notin {"log", "done"},
         letter' = [letter EXCEPT ![l] = m], UNCHANGED <<tasks, files, journal, filled, taken, report>>
  PROVE  MailInv'
<1>1. letter' \in [Letters -> LetterRow] /\ \A k \in Letters : LetterOK(letter'[k])
  BY DEF MailInv
<1>2. TablesOK'
  BY DEF MailInv, TablesOK
<1>3. l \notin taken
  BY DEF MailInv
<1>4. /\ \A k \in taken' : letter'[k].pc \in {"log", "done", "failed"}
      /\ \A k \in Letters : letter'[k].pc = "log" /\ letter'[k].status = 200 => k \in taken'
      /\ \A k \in Letters : letter'[k].pc = "done" => \E r \in report' : r.letter = k
  BY <1>3 DEF MailInv
<1> QED
  BY <1>1, <1>2, <1>4 DEF MailInv

\* The row a letter has, with what it has read as a record of its own.
LEMMA LetterKnown ==
  ASSUME MailInv, NEW l \in Letters
  PROVE  \E b \in LetterRow, g \in GotRow :
            b = letter[l] /\ g = b.got /\ LetterOK(b) /\ b.about \subseteq Authored
<1>1. letter[l] \in LetterRow /\ LetterOK(letter[l])
  BY DEF MailInv
<1> QED
  BY <1>1 DEF LetterRow

\* A new letter has read and counted nothing.
LEMMA AskLetterKeeps ==
  ASSUME MailInv, NEW l \in Letters, NEW kind \in LetterKinds, NEW about \in SUBSET Authored,
         kind # "digest" => \E p \in Authored : about = {p}, AskLetter(l, kind, about)
  PROVE  MailInv'
<1>1. PICK pc \in {"tasks", "form", "files"} : pc = FirstRead(kind) /\ (kind = "digest" => pc = "files")
  BY DEF FirstRead, LetterKinds
<1> DEFINE m == Unread(pc, kind, about)
<1>2. letter' = [letter EXCEPT ![l] = m] /\ UNCHANGED <<tasks, files, journal, filled, taken, report>>
  BY <1>1 DEF AskLetter
<1>3. NothingRead \in GotRow
  BY DEF NothingRead, GotRow, FormFields
<1>4. /\ m \in LetterRow /\ m.pc = pc /\ m.kind = kind /\ m.about = about /\ m.left = about
      /\ m.at = {} /\ m.got = NothingRead
  BY <1>3 DEF LetterRow, Unread
<1> HIDE DEF m
<1>5. /\ \A p \in Authored : NothingRead.files[p] = <<>> /\ NothingRead.journal[p] = <<>>
      /\ NothingRead.counted.files = 0 /\ NothingRead.counted.journal = 0
  BY DEF NothingRead
<1>6. Cells(NothingRead.files, Authored \ {}) = {} /\ Cells(NothingRead.journal, Authored) = {}
  BY <1>5 DEF Cells
<1>7. about = Authored \/ kind # "digest"
  BY DEF AskLetter
<1>8. LetterOK(m)
  <2>1. kind \in LetterKinds /\ kind # "none"
    BY DEF LetterKinds
  <2>2. /\ 0 = Cardinality(Cells(NothingRead.files, Authored \ {}))
        /\ 0 = Cardinality(Cells(NothingRead.journal, Authored))
    BY <1>6, FS_EmptySet
  <2> QED
    BY <1>1, <1>4, <1>5, <2>1, <2>2 DEF LetterOK
<1>9. letter[l].pc = "idle"
  BY DEF AskLetter
<1> QED
  BY <1>1, <1>2, <1>4, <1>8, <1>9, Composing

\* One query, of a letter for one project.
LEMMA ReadTasksKeeps ==
  ASSUME MailInv, NEW l \in Letters, ReadTasks(l)
  PROVE  MailInv'
<1>1. PICK b \in LetterRow, g \in GotRow : b = letter[l] /\ g = b.got /\ LetterOK(b)
  BY LetterKnown
<1>2. b.pc = "tasks" /\ b.kind \notin {"none", "digest"}
  BY <1>1 DEF ReadTasks, LetterOK
<1>3. PICK p \in Authored : b.about = {p}
  BY <1>1, <1>2 DEF LetterOK
<1>4. PICK ts \in Seq(TaskRows) : ts = tasks[p]
  BY DEF MailInv, TablesOK
<1>5. Only({p}) = p
  BY DEF Only
<1> DEFINE h == [g EXCEPT !.tasks = ts]
<1>6. h \in GotRow /\ h.files = g.files /\ h.journal = g.journal /\ h.counted = g.counted
  BY DEF GotRow
<1> DEFINE m == [b EXCEPT !.pc = "form", !.got = h]
<1>7. /\ letter' = [letter EXCEPT ![l] = m] /\ UNCHANGED <<tasks, files, journal, filled, taken, report>>
  BY <1>1, <1>3, <1>4, <1>5 DEF ReadTasks
<1> HIDE DEF h
<1>8. /\ m \in LetterRow /\ m.pc = "form" /\ m.kind = b.kind /\ m.about = b.about
      /\ m.left = b.left /\ m.at = b.at /\ m.got = h
  BY <1>6, ZenonT(30) DEF LetterRow
<1> HIDE DEF m
<1>9. LetterOK(m)
  BY <1>1, <1>2, <1>6, <1>8 DEF LetterOK
<1> QED
  BY <1>1, <1>2, <1>7, <1>8, <1>9, Composing

\* Another query of a letter for one project.
LEMMA ReadFormKeeps ==
  ASSUME MailInv, NEW l \in Letters, ReadForm(l)
  PROVE  MailInv'
<1>1. PICK b \in LetterRow, g \in GotRow : b = letter[l] /\ g = b.got /\ LetterOK(b)
  BY LetterKnown
<1>2. b.pc = "form" /\ b.kind \notin {"none", "digest"}
  BY <1>1 DEF ReadForm, LetterOK
<1>3. PICK p \in Authored : b.about = {p}
  BY <1>1, <1>2 DEF LetterOK
<1>4. PICK f \in FormFields : f = filled[p]
  BY DEF MailInv, TablesOK
<1>5. Only({p}) = p
  BY DEF Only
<1> DEFINE h == [g EXCEPT !.filled = f]
<1>6. h \in GotRow /\ h.files = g.files /\ h.journal = g.journal /\ h.counted = g.counted
  BY DEF GotRow
<1>7. PICK pc \in {"files", "send"} : pc = IF b.kind = "snapshot" THEN "files" ELSE "send"
  OBVIOUS
<1> DEFINE m == [b EXCEPT !.pc = pc, !.got = h]
<1>8. /\ letter' = [letter EXCEPT ![l] = m] /\ UNCHANGED <<tasks, files, journal, filled, taken, report>>
  BY <1>1, <1>3, <1>4, <1>5, <1>7 DEF ReadForm
<1> HIDE DEF h
<1>9. /\ m \in LetterRow /\ m.pc = pc /\ m.kind = b.kind /\ m.about = b.about
      /\ m.left = b.left /\ m.at = b.at /\ m.got = h
  BY <1>6, ZenonT(30) DEF LetterRow
<1> HIDE DEF m
<1>10. LetterOK(m)
  BY <1>1, <1>2, <1>6, <1>9 DEF LetterOK
<1> QED
  BY <1>1, <1>2, <1>8, <1>9, <1>10, Composing

\* The files of a project are not counted before its journal is read too.
LEMMA ReadFilesKeeps ==
  ASSUME MailInv, NEW l \in Letters, NEW p \in Authored, ReadFiles(l, p)
  PROVE  MailInv'
<1>1. PICK b \in LetterRow, g \in GotRow : b = letter[l] /\ g = b.got /\ LetterOK(b)
  BY LetterKnown
<1>2. b.pc = "files" /\ p \in b.left /\ b.at = {}
  BY <1>1 DEF ReadFiles, LetterOK
<1>3. PICK read \in Seq(LogRows) : read = Since(b.kind, files[p])
  BY SinceListed DEF MailInv, TablesOK
<1>4. PICK list \in [Authored -> Seq(LogRows)] : list = [g.files EXCEPT ![p] = read]
  BY DEF GotRow
<1> DEFINE h == [g EXCEPT !.files = list]
<1>5. h \in GotRow /\ h.files = list /\ h.journal = g.journal /\ h.counted = g.counted
  BY DEF GotRow
<1>6. PICK left \in SUBSET Authored : left = b.left \ {p}
  <2>1. b.left \in SUBSET Authored
    BY DEF LetterRow
  <2> QED
    BY <2>1
<1> DEFINE m == [b EXCEPT !.pc = "journal", !.left = left, !.at = {p}, !.got = h]
<1>7. /\ letter' = [letter EXCEPT ![l] = m] /\ UNCHANGED <<tasks, files, journal, filled, taken, report>>
  <2>1. m = [b EXCEPT !.pc = "journal", !.left = @ \ {p}, !.at = {p}, !.got.files[p] = read]
    BY <1>1, <1>4, <1>6 DEF LetterRow, GotRow
  <2> HIDE DEF m
  <2>2. m = [letter[l] EXCEPT !.pc = "journal", !.left = @ \ {p}, !.at = {p},
                              !.got.files[p] = Since(letter[l].kind, files[p])]
    BY <1>1, <1>3, <2>1
  <2> QED
    BY <2>2 DEF ReadFiles
<1> HIDE DEF h
<1>8. /\ m \in LetterRow /\ m.pc = "journal" /\ m.kind = b.kind /\ m.about = b.about
      /\ m.left = left /\ m.at = {p} /\ m.got = h
  <2>1. {p} \in SUBSET Authored
    OBVIOUS
  <2> QED
    BY <1>5, <2>1, ZenonT(30) DEF LetterRow
<1> HIDE DEF m
<1>9. \A q \in Authored \ {p} : list[q] = g.files[q]
  BY <1>4 DEF GotRow
<1>10. Cells(g.files, Authored \ {}) = Cells(list, Authored \ {p})
  <2>1. g.files[p] = <<>>
    BY <1>1, <1>2 DEF LetterOK
  <2> QED
    BY <1>9, <2>1, CellsSame
<1>11. /\ b.left \subseteq Authored /\ b.left \subseteq b.about
       /\ \A q \in b.left : g.files[q] = <<>> /\ g.journal[q] = <<>>
  BY <1>1 DEF LetterOK, LetterRow
<1>12. LetterOK(m)
  <2>1. /\ left \subseteq b.about /\ {p} \subseteq b.about \ left
        /\ \A q \in left : h.files[q] = <<>>
        /\ \A q \in left \cup {p} : h.journal[q] = <<>>
    BY <1>2, <1>5, <1>6, <1>9, <1>11
  <2>2. b.kind = "digest" => /\ h.counted.files = Cardinality(Cells(h.files, Authored \ {p}))
                             /\ h.counted.journal = Cardinality(Cells(h.journal, Authored))
    BY <1>1, <1>2, <1>5, <1>10 DEF LetterOK
  <2>3. b.kind # "none" /\ (b.kind # "digest" => \E q \in Authored : b.about = {q})
    BY <1>1, <1>2 DEF LetterOK
  <2>4. /\ m.left \subseteq m.about /\ m.at \subseteq m.about \ m.left
        /\ m.kind # "none" /\ (m.kind # "digest" => \E q \in Authored : m.about = {q})
        /\ m.pc = "journal" /\ \E q \in Authored : m.at = {q}
    BY <1>8, <2>1, <2>3
  <2>5. /\ \A q \in m.left : m.got.files[q] = <<>>
        /\ \A q \in m.left \cup m.at : m.got.journal[q] = <<>>
    BY <1>8, <2>1
  <2>6. m.kind = "digest" => /\ m.got.counted.files = Cardinality(Cells(m.got.files, Authored \ m.at))
                             /\ m.got.counted.journal = Cardinality(Cells(m.got.journal, Authored))
    BY <1>8, <2>2
  <2> QED
    BY <2>4, <2>5, <2>6 DEF LetterOK
<1> QED
  BY <1>1, <1>2, <1>7, <1>8, <1>12, Composing

\* Then both lists are counted.
LEMMA ReadJournalKeeps ==
  ASSUME MailInv, NEW l \in Letters, NEW p \in Authored, ReadJournal(l, p)
  PROVE  MailInv'
<1>1. PICK b \in LetterRow, g \in GotRow : b = letter[l] /\ g = b.got /\ LetterOK(b)
  BY LetterKnown
<1>2. b.pc = "journal" /\ b.at = {p}
  <2>1. b.pc = "journal" /\ p \in b.at
    BY <1>1 DEF ReadJournal
  <2> QED
    BY <1>1, <2>1 DEF LetterOK
<1>3. PICK read \in Seq(LogRows) : read = Since(b.kind, journal[p])
  BY SinceListed DEF MailInv, TablesOK
<1>4. PICK list \in [Authored -> Seq(LogRows)] : list = [g.journal EXCEPT ![p] = read]
  BY DEF GotRow
<1>5. g.files \in [Authored -> Seq(LogRows)] /\ g.journal \in [Authored -> Seq(LogRows)]
  BY DEF GotRow
<1>6. PICK n \in Nat : n = Len(read)
  BY LenProperties
<1>7. PICK k \in Nat : k = Len(g.files[p])
  BY <1>5, LenProperties
<1>8. PICK i \in Nat, j \in Nat : i = g.counted.files /\ j = g.counted.journal
  BY DEF GotRow
<1>9. PICK counted \in [files: Nat, journal: Nat] :
         counted = Count(l, p, read) /\ counted.files = i + k /\ counted.journal = j + n
  <2>1. Count(l, p, read) = [files |-> i + k, journal |-> j + n]
    BY <1>1, <1>6, <1>7, <1>8 DEF Count
  <2> QED
    BY <2>1, SMTT(30)
<1> DEFINE h == [g EXCEPT !.journal = list, !.counted = counted]
<1>10. h \in GotRow /\ h.files = g.files /\ h.journal = list /\ h.counted = counted
  BY DEF GotRow
<1>11. PICK pc \in {"files", "send"} : pc = AfterProject(l)
  BY DEF AfterProject
<1> DEFINE m == [b EXCEPT !.pc = pc, !.at = {}, !.got = h]
<1>12. /\ letter' = [letter EXCEPT ![l] = m] /\ UNCHANGED <<tasks, files, journal, filled, taken, report>>
  <2>1. m = [b EXCEPT !.pc = pc, !.at = {}, !.got.journal[p] = read, !.got.counted = counted]
    BY <1>1, <1>4, ZenonT(30) DEF LetterRow, GotRow
  <2> HIDE DEF m
  <2>2. m = [letter[l] EXCEPT !.pc = AfterProject(l), !.at = {},
                              !.got.journal[p] = Since(letter[l].kind, journal[p]),
                              !.got.counted = Count(l, p, Since(letter[l].kind, journal[p]))]
    BY <1>1, <1>3, <1>9, <1>11, <2>1
  <2> QED
    BY <2>2 DEF ReadJournal
<1> HIDE DEF h
<1>13. /\ m \in LetterRow /\ m.pc = pc /\ m.kind = b.kind /\ m.about = b.about
       /\ m.left = b.left /\ m.at = {} /\ m.got = h
  <2>1. {} \in SUBSET Authored
    OBVIOUS
  <2> QED
    BY <1>10, <2>1, ZenonT(30) DEF LetterRow
<1> HIDE DEF m
<1>14. \A q \in Authored \ {p} : list[q] = g.journal[q]
  BY <1>4, <1>5
<1>15. list[p] = read /\ g.journal[p] = <<>> /\ p \notin b.left
  <2>1. p \in b.left \cup b.at /\ p \notin b.left
    BY <1>1, <1>2 DEF LetterOK
  <2> QED
    BY <1>1, <1>4, <1>5, <2>1 DEF LetterOK
<1>16. Cardinality(Cells(list, Authored)) = Cardinality(Cells(g.journal, Authored)) + n
  <2>1. Cells(list, Authored \ {p}) = Cells(g.journal, Authored \ {p})
    BY <1>14, CellsSame
  <2>2. PICK c \in Nat : c = Cardinality(Cells(g.journal, Authored \ {p}))
    BY <1>5, CellsFinite
  <2>3. Cardinality(Cells(list, Authored)) = c + n
    BY <1>6, <1>15, <2>1, <2>2, CellsGrow
  <2>4. Len(g.journal[p]) = 0
    BY <1>15
  <2>5. Cardinality(Cells(g.journal, Authored)) = c + 0
    BY <1>5, <2>2, <2>4, CellsGrow
  <2> QED
    BY <2>2, <2>3, <2>5
<1>17. Cardinality(Cells(g.files, Authored)) = Cardinality(Cells(g.files, Authored \ {p})) + k
  BY <1>5, <1>7, CellsGrow
<1>18. b.left \subseteq Authored /\ b.left \subseteq b.about
  BY <1>1 DEF LetterOK, LetterRow
<1>19. LetterOK(m)
  <2>1. /\ m.left \subseteq m.about /\ m.at \subseteq m.about \ m.left
        /\ m.kind # "none" /\ (m.kind \notin {"none", "digest"} => \E q \in Authored : m.about = {q})
        /\ m.pc \in {"files", "send"} /\ m.at = {}
    BY <1>1, <1>2, <1>11, <1>13, <1>18 DEF LetterOK
  <2>2. \A q \in m.left : m.got.files[q] = <<>>
    BY <1>1, <1>10, <1>13 DEF LetterOK
  <2>3. \A q \in m.left \cup m.at : m.got.journal[q] = <<>>
    <3>1. \A q \in b.left : g.journal[q] = <<>> /\ q \in Authored \ {p}
      BY <1>1, <1>15, <1>18 DEF LetterOK
    <3> QED
      BY <1>10, <1>13, <1>14, <3>1
  <2>4. ASSUME m.kind = "digest"
        PROVE  /\ m.got.counted.files = Cardinality(Cells(m.got.files, Authored \ m.at))
               /\ m.got.counted.journal = Cardinality(Cells(m.got.journal, Authored))
    <3>1. i = Cardinality(Cells(g.files, Authored \ {p})) /\ j = Cardinality(Cells(g.journal, Authored))
      BY <1>1, <1>2, <1>8, <1>13, <2>4 DEF LetterOK
    <3>2. m.got.counted.files = i + k /\ m.got.counted.journal = j + n
      BY <1>9, <1>10, <1>13
    <3>3. m.got.files = g.files /\ m.got.journal = list /\ Authored \ m.at = Authored
      BY <1>10, <1>13
    <3> QED
      BY <1>16, <1>17, <3>1, <3>2, <3>3
  <2> QED
    BY <2>1, <2>2, <2>3, <2>4 DEF LetterOK
<1> QED
  BY <1>1, <1>2, <1>11, <1>12, <1>13, <1>19, Composing

\* A digest drops the files of a project whose journal it could not read,
\* which it had not counted yet.
LEMMA ReadFailsKeeps ==
  ASSUME MailInv, NEW l \in Letters, ReadFails(l)
  PROVE  MailInv'
<1>1. PICK b \in LetterRow, g \in GotRow : b = letter[l] /\ g = b.got /\ LetterOK(b)
  BY LetterKnown
<1>2. b.pc \in {"tasks", "files", "journal"} /\ UNCHANGED <<tasks, files, journal, filled, taken, report>>
  BY <1>1 DEF ReadFails
<1>3. CASE b.kind # "digest"
  <2> DEFINE m == [b EXCEPT !.pc = "failed"]
  <2>1. letter' = [letter EXCEPT ![l] = m]
    BY <1>1, <1>3 DEF ReadFails
  <2>2. /\ m \in LetterRow /\ m.pc = "failed" /\ m.kind = b.kind /\ m.about = b.about
        /\ m.left = b.left /\ m.at = b.at /\ m.got = b.got
    BY DEF LetterRow
  <2> HIDE DEF m
  <2>3. LetterOK(m)
    BY <1>1, <1>2, <1>3, <2>2 DEF LetterOK
  <2> QED
    BY <1>1, <1>2, <2>1, <2>2, <2>3, Composing
<1>4. CASE b.kind = "digest"
  <2>1. PICK p \in IF b.pc = "files" THEN b.left ELSE b.at :
           letter' = [letter EXCEPT ![l] =
                         [letter[l] EXCEPT !.pc = IF letter[l].left \subseteq {p} THEN "send" ELSE "files",
                                           !.left = @ \ {p}, !.at = {}, !.got.files[p] = <<>>]]
    BY <1>1, <1>4 DEF ReadFails
  <2>2. b.left \in SUBSET Authored /\ b.at \in SUBSET Authored
    BY DEF LetterRow
  <2>3. p \in Authored
    BY <2>1, <2>2
  <2>4. PICK list \in [Authored -> Seq(LogRows)] : list = [g.files EXCEPT ![p] = <<>>]
    <3>1. g.files \in [Authored -> Seq(LogRows)] /\ <<>> \in Seq(LogRows)
      BY DEF GotRow
    <3> QED
      BY <3>1
  <2> DEFINE h == [g EXCEPT !.files = list]
  <2>5. h \in GotRow /\ h.files = list /\ h.journal = g.journal /\ h.counted = g.counted
    BY DEF GotRow
  <2>6. PICK left \in SUBSET Authored : left = b.left \ {p}
    BY <2>2
  <2>7. PICK pc \in {"files", "send"} : pc = IF b.left \subseteq {p} THEN "send" ELSE "files"
    OBVIOUS
  <2> DEFINE m == [b EXCEPT !.pc = pc, !.left = left, !.at = {}, !.got = h]
  <2>8. letter' = [letter EXCEPT ![l] = m]
    <3>1. m = [b EXCEPT !.pc = pc, !.left = @ \ {p}, !.at = {}, !.got.files[p] = <<>>]
      BY <1>1, <2>4, <2>6 DEF LetterRow, GotRow
    <3> HIDE DEF m
    <3>2. m = [letter[l] EXCEPT !.pc = IF letter[l].left \subseteq {p} THEN "send" ELSE "files",
                                !.left = @ \ {p}, !.at = {}, !.got.files[p] = <<>>]
      BY <1>1, <2>7, <3>1
    <3> QED
      BY <2>1, <3>2
  <2> HIDE DEF h
  <2>9. /\ m \in LetterRow /\ m.pc = pc /\ m.kind = b.kind /\ m.about = b.about
        /\ m.left = left /\ m.at = {} /\ m.got = h
    <3>1. {} \in SUBSET Authored
      OBVIOUS
    <3> QED
      BY <2>5, <3>1, ZenonT(30) DEF LetterRow
  <2> HIDE DEF m
  <2>10. g.files \in [Authored -> Seq(LogRows)] /\ \A q \in Authored \ {p} : list[q] = g.files[q]
    BY <2>4 DEF GotRow
  <2>11. list[p] = <<>>
    BY <2>3, <2>4, <2>10
  <2>12. b.at = {p} \/ (b.at = {} /\ g.files[p] = <<>>)
    <3>1. CASE b.pc = "files"
      BY <1>1, <2>1, <3>1 DEF LetterOK
    <3>2. CASE b.pc # "files"
      <4>1. b.pc = "journal"
        BY <1>1, <1>2, <1>4, <3>2 DEF LetterOK
      <4> QED
        BY <1>1, <2>1, <3>2, <4>1 DEF LetterOK
    <3> QED
      BY <3>1, <3>2
  <2>13. Cells(g.files, Authored \ b.at) = Cells(list, Authored)
    <3>1. \A q \in (Authored \ b.at) \cap Authored : DOMAIN g.files[q] = DOMAIN list[q]
      BY <2>10, <2>11, <2>12
    <3>2. \A q \in Authored \ (Authored \ b.at) : DOMAIN list[q] = {}
      BY <2>11, <2>12
    <3>3. \A q \in (Authored \ b.at) \ Authored : DOMAIN g.files[q] = {}
      OBVIOUS
    <3> QED
      BY <3>1, <3>2, <3>3, CellsSame
  <2>14. LetterOK(m)
    <3>1. /\ m.left \subseteq m.about /\ m.at \subseteq m.about \ m.left
          /\ m.kind = "digest" /\ m.pc \in {"files", "send"} /\ m.at = {}
      BY <1>1, <1>4, <2>6, <2>9 DEF LetterOK
    <3>2. \A q \in m.left : m.got.files[q] = <<>>
      <4>1. \A q \in b.left : g.files[q] = <<>>
        BY <1>1 DEF LetterOK
      <4> QED
        BY <2>2, <2>5, <2>6, <2>9, <2>10, <4>1
    <3>3. \A q \in m.left \cup m.at : m.got.journal[q] = <<>>
      BY <1>1, <2>5, <2>6, <2>9 DEF LetterOK
    <3>4. /\ m.got.counted.files = Cardinality(Cells(m.got.files, Authored \ m.at))
          /\ m.got.counted.journal = Cardinality(Cells(m.got.journal, Authored))
      <4>1. /\ g.counted.files = Cardinality(Cells(g.files, Authored \ b.at))
            /\ g.counted.journal = Cardinality(Cells(g.journal, Authored))
        BY <1>1, <1>4 DEF LetterOK
      <4>2. Authored \ m.at = Authored
        BY <2>9
      <4> QED
        BY <2>5, <2>9, <2>13, <4>1, <4>2
    <3> QED
      BY <3>1, <3>2, <3>3, <3>4 DEF LetterOK
  <2> QED
    BY <1>1, <1>2, <2>7, <2>8, <2>9, <2>14, Composing
<1> QED
  BY <1>3, <1>4

-----------------------------------------------------------------------------
(* Sending, logging, and the edits of the tables.                          *)

\* Only where a letter stands changes, after it has been composed.
LEMMA PassedOn ==
  ASSUME NEW b, LetterOK(b), b.pc \in {"send", "log"}, NEW m, m.pc \in {"log", "done", "failed"},
         m.kind = b.kind, m.about = b.about, m.left = b.left, m.at = b.at, m.got = b.got
  PROVE  LetterOK(m)
BY DEF LetterOK

\* The provider says 200 only of what it took.
LEMMA SendKeeps ==
  ASSUME MailInv, NEW l \in Letters, NEW to \in Senders, Send(l, to)
  PROVE  MailInv'
<1>1. PICK b \in LetterRow, g \in GotRow : b = letter[l] /\ g = b.got /\ LetterOK(b)
  BY LetterKnown
<1>2. PICK status \in {0, 200, 500}, took \in BOOLEAN :
         /\ status = 200 => took
         /\ status = 500 => ~ took
         /\ letter' = [letter EXCEPT ![l] = [letter[l] EXCEPT !.pc = "log", !.to = to, !.status = status]]
         /\ taken' = IF took THEN taken \cup {l} ELSE taken
  BY Zenon DEF Send
<1>3. b.pc = "send" /\ UNCHANGED <<tasks, files, journal, filled, report>>
  BY <1>1 DEF Send
<1>4. to \in Seq(Addresses)
  BY MailAssumption, Zenon
<1> DEFINE m == [b EXCEPT !.pc = "log", !.to = to, !.status = status]
<1>5. m \in LetterRow /\ m.pc = "log" /\ m.to = to /\ m.status = status /\ LetterOK(m)
  <2>1. m.pc = "log" /\ m.kind = b.kind /\ m.about = b.about
    BY DEF LetterRow
  <2>2. m.left = b.left /\ m.at = b.at /\ m.got = b.got
    BY DEF LetterRow
  <2>3. m.to = to /\ m.status = status
    BY DEF LetterRow
  <2>4. m \in LetterRow
    BY <1>4, ZenonT(30) DEF LetterRow
  <2> HIDE DEF m
  <2> QED
    BY <1>1, <1>3, <2>1, <2>2, <2>3, <2>4, PassedOn
<1>6. letter \in [Letters -> LetterRow]
  BY DEF MailInv
<1>7. letter' = [letter EXCEPT ![l] = m]
  BY <1>1, <1>2, <1>6
<1> HIDE DEF m
<1>8. letter' \in [Letters -> LetterRow] /\ \A k \in Letters : LetterOK(letter'[k])
  BY <1>5, <1>7 DEF MailInv
<1>9. TablesOK'
  BY <1>3 DEF MailInv, TablesOK
<1>10. taken' \subseteq Letters /\ \A k \in taken' : letter'[k].pc \in {"log", "done", "failed"}
  BY <1>2, <1>5, <1>7 DEF MailInv
<1>11. \A k \in Letters : letter'[k].pc = "log" /\ letter'[k].status = 200 => k \in taken'
  BY <1>2, <1>5, <1>7 DEF MailInv
<1>12. \A k \in Letters : letter'[k].pc = "done" => \E r \in report' : r.letter = k
  BY <1>3, <1>5, <1>7 DEF MailInv
<1>13. /\ report' \subseteq [letter: Letters, status: {0, 200, 500}]
       /\ \A r \in report' : r.status = 200 => r.letter \in taken'
  BY <1>2, <1>3 DEF MailInv
<1> QED
  BY <1>8, <1>9, <1>10, <1>11, <1>12, <1>13 DEF MailInv

\* The row of the report carries the status of the letter.
LEMMA LoggedKeeps ==
  ASSUME MailInv, NEW l \in Letters, LogSend(l) \/ LogSendFails(l)
  PROVE  MailInv'
<1>1. PICK b \in LetterRow, g \in GotRow : b = letter[l] /\ g = b.got /\ LetterOK(b)
  BY LetterKnown
<1>2. /\ b.pc = "log" /\ UNCHANGED <<tasks, files, journal, filled, taken>>
      /\ b.to \in Seq(Addresses) /\ b.status \in {0, 200, 500}
  BY <1>1 DEF LogSend, LogSendFails, LetterRow
<1>3. PICK pc \in {"done", "failed"} :
         /\ letter' = [letter EXCEPT ![l].pc = pc]
         /\ pc = "done" => report' = report \cup {[letter |-> l, status |-> letter[l].status]}
         /\ pc = "failed" => report' = report
  BY DEF LogSend, LogSendFails
<1> DEFINE m == [b EXCEPT !.pc = pc]
<1>4. m \in LetterRow /\ m.pc = pc /\ m.to = b.to /\ m.status = b.status /\ LetterOK(m)
  <2>1. m.pc = pc /\ m.kind = b.kind /\ m.about = b.about
    BY DEF LetterRow
  <2>2. m.left = b.left /\ m.at = b.at /\ m.got = b.got
    BY DEF LetterRow
  <2>3. m.to = b.to /\ m.status = b.status
    BY DEF LetterRow
  <2>4. m \in LetterRow
    BY DEF LetterRow
  <2> HIDE DEF m
  <2> QED
    BY <1>1, <1>2, <2>1, <2>2, <2>3, <2>4, PassedOn
<1>6. letter' = [letter EXCEPT ![l] = m]
  BY <1>1, <1>3
<1> HIDE DEF m
<1>7. letter' \in [Letters -> LetterRow] /\ \A k \in Letters : LetterOK(letter'[k])
  BY <1>4, <1>6 DEF MailInv
<1>8. TablesOK'
  BY <1>2 DEF MailInv, TablesOK
<1>9. /\ taken' \subseteq Letters
      /\ \A k \in taken' : letter'[k].pc \in {"log", "done", "failed"}
      /\ \A k \in Letters : letter'[k].pc = "log" /\ letter'[k].status = 200 => k \in taken'
  BY <1>2, <1>4, <1>6 DEF MailInv
<1>10. PICK row \in [letter: Letters, status: {0, 200, 500}] :
          row = [letter |-> l, status |-> b.status] /\ row.letter = l /\ row.status = b.status
  <2>1. PICK status \in {0, 200, 500} : status = b.status
    BY <1>2
  <2>2. [letter |-> l, status |-> status] \in [letter: Letters, status: {0, 200, 500}]
    OBVIOUS
  <2> QED
    BY <2>1, <2>2
<1>11. report' = report \/ report' = report \cup {row}
  BY <1>1, <1>3, <1>10
<1>12. \A k \in Letters : letter'[k].pc = "done" => \E r \in report' : r.letter = k
  <2>1. pc = "done" => row \in report'
    BY <1>1, <1>3, <1>10
  <2> QED
    BY <1>4, <1>6, <1>10, <1>11, <2>1 DEF MailInv
<1>13. report' \subseteq [letter: Letters, status: {0, 200, 500}]
  BY <1>11 DEF MailInv
<1>14. \A r \in report' : r.status = 200 => r.letter \in taken'
  BY <1>1, <1>2, <1>10, <1>11 DEF MailInv
<1> QED
  BY <1>7, <1>8, <1>9, <1>12, <1>13, <1>14 DEF MailInv

\* Edits of the tables leave the letters alone.
LEMMA RowsKeep ==
  ASSUME MailInv, TablesOK', UNCHANGED <<letter, taken, report>>
  PROVE  MailInv'
<1>1. letter' \in [Letters -> LetterRow] /\ \A k \in Letters : LetterOK(letter'[k])
  BY DEF MailInv
<1>2. /\ taken' \subseteq Letters
      /\ \A l \in taken' : letter'[l].pc \in {"log", "done", "failed"}
      /\ \A l \in Letters : letter'[l].pc = "log" /\ letter'[l].status = 200 => l \in taken'
      /\ \A l \in Letters : letter'[l].pc = "done" => \E r \in report' : r.letter = l
      /\ report' \subseteq [letter: Letters, status: {0, 200, 500}]
      /\ \A r \in report' : r.status = 200 => r.letter \in taken'
  BY DEF MailInv
<1> QED
  BY <1>1, <1>2 DEF MailInv

\* The edits of the tables.
LEMMA TablesKeep ==
  ASSUME MailInv,
         \/ \E p \in Scheduled, t \in TaskRows : AddTask(p, t)
         \/ \E p \in Authored, e \in LogRows : LogFile(p, e) \/ LogJournal(p, e)
         \/ \E p \in Authored : DeleteLog(p)
         \/ \E p \in Scheduled, f \in FormsSent : FillForm(p, f)
  PROVE  MailInv'
<1> USE DEF TablesOK
<1>1. TablesOK
  BY DEF MailInv
<1>2. Scheduled \subseteq Authored
  BY MailAssumption
<1>3. ASSUME NEW p \in Scheduled, NEW t \in TaskRows, AddTask(p, t) PROVE MailInv'
  <2>1. Append(tasks[p], t) \in Seq(TaskRows)
    BY <1>1, <1>2
  <2>2. TablesOK'
    BY <1>1, <1>3, <2>1 DEF AddTask
  <2> QED
    BY <1>3, <2>2, RowsKeep DEF AddTask
<1>4. ASSUME NEW p \in Authored, NEW e \in LogRows, LogFile(p, e) \/ LogJournal(p, e) PROVE MailInv'
  <2>1. <<e>> \o files[p] \in Seq(LogRows) /\ <<e>> \o journal[p] \in Seq(LogRows)
    BY <1>1
  <2>2. TablesOK'
    BY <1>1, <1>4, <2>1 DEF LogFile, LogJournal
  <2> QED
    BY <1>4, <2>2, RowsKeep DEF LogFile, LogJournal
<1>5. ASSUME NEW p \in Authored, DeleteLog(p) PROVE MailInv'
  <2>1. /\ files[p] # <<>> => Tail(files[p]) \in Seq(LogRows)
        /\ journal[p] # <<>> => Tail(journal[p]) \in Seq(LogRows)
    BY <1>1
  <2>2. TablesOK'
    BY <1>1, <1>5, <2>1 DEF DeleteLog
  <2> QED
    BY <1>5, <2>2, RowsKeep DEF DeleteLog
<1>6. ASSUME NEW p \in Scheduled, NEW f \in FormsSent, FillForm(p, f) PROVE MailInv'
  <2>1. TablesOK'
    BY <1>1, <1>2, <1>6 DEF FillForm, FormFields
  <2> QED
    BY <1>6, <2>1, RowsKeep DEF FillForm
<1> QED
  BY <1>3, <1>4, <1>5, <1>6

\* All actions together.
LEMMA MailStep == MailInv /\ [MailNext]_mailVars => MailInv'
<1> SUFFICES ASSUME MailInv, [MailNext]_mailVars PROVE MailInv'
  OBVIOUS
<1>1. Scheduled \subseteq Authored
  BY MailAssumption
<1>2. CASE \/ \E p \in Scheduled, t \in TaskRows : AddTask(p, t)
           \/ \E p \in Authored, e \in LogRows : LogFile(p, e) \/ LogJournal(p, e)
           \/ \E p \in Authored : DeleteLog(p)
           \/ \E p \in Scheduled, f \in FormsSent : FillForm(p, f)
  BY <1>2, TablesKeep
<1>3. ASSUME NEW l \in Letters, NEW kind \in LetterKinds \ {"digest"}, NEW p \in Scheduled,
             AskLetter(l, kind, {p})
      PROVE  MailInv'
  BY <1>1, <1>3, AskLetterKeeps
<1>4. ASSUME NEW l \in Letters, AskLetter(l, "digest", Authored) PROVE MailInv'
  <2>1. "digest" \in LetterKinds
    BY DEF LetterKinds
  <2> QED
    BY <1>4, <2>1, AskLetterKeeps
<1>5. ASSUME NEW l \in Letters, ReadTasks(l) \/ ReadForm(l) \/ ReadFails(l) PROVE MailInv'
  BY <1>5, ReadTasksKeeps, ReadFormKeeps, ReadFailsKeeps
<1>6. ASSUME NEW l \in Letters, NEW p \in Authored, ReadFiles(l, p) \/ ReadJournal(l, p) PROVE MailInv'
  BY <1>6, ReadFilesKeeps, ReadJournalKeeps
<1>7. ASSUME NEW l \in Letters, \/ \E to \in Senders : Send(l, to)
                                \/ LogSend(l) \/ LogSendFails(l) PROVE MailInv'
  BY <1>7, SendKeeps, LoggedKeeps
<1>8. CASE UNCHANGED mailVars
  BY <1>8, RowsKeep DEF mailVars, MailInv, TablesOK
<1> QED
  BY <1>2, <1>3, <1>4, <1>5, <1>6, <1>7, <1>8 DEF MailNext

\* The start.
LEMMA MailBegin == MailInit => MailInv
<1> SUFFICES ASSUME MailInit PROVE MailInv
  OBVIOUS
<1>1. TablesOK
  BY DEF MailInit, TablesOK, FormFields
<1>2. NothingRead \in GotRow
  BY DEF NothingRead, GotRow, FormFields
<1>3. PICK m \in LetterRow : /\ m = NotAsked /\ m.pc = "idle" /\ m.kind = "none"
                             /\ m.about = {} /\ m.left = {} /\ m.at = {}
  <2> DEFINE m == Unread("idle", "none", {})
  <2>1. m.pc = "idle" /\ m.kind = "none" /\ m.about = {} /\ m.left = {} /\ m.at = {}
    BY DEF Unread
  <2>2. {} \in SUBSET Authored /\ <<>> \in Seq(Addresses)
    OBVIOUS
  <2>3. m \in LetterRow
    BY <1>2, <2>2 DEF Unread, LetterRow
  <2> QED
    BY <2>1, <2>3 DEF NotAsked
<1>4. LetterOK(m)
  BY <1>3 DEF LetterOK
<1>5. letter = [l \in Letters |-> m] /\ taken = {} /\ report = {}
  BY <1>3 DEF MailInit
<1> QED
  BY <1>1, <1>3, <1>4, <1>5 DEF MailInv

-----------------------------------------------------------------------------
(* What a letter says.                                                     *)

\* The total of integer amounts is an integer.
LEMMA TotalInt ==
  ASSUME NEW amounts, Len(amounts) \in Nat, \A i \in 1 .. Len(amounts) : amounts[i] \in Int
  PROVE  Total(amounts) \in Int
<1> DEFINE l == Len(amounts)
           Step(s, n) == IF n = 0 THEN 0 ELSE s[n - 1] + amounts[n]
           Way(s, n) == s \in [0 .. n -> Int] /\ \A k \in 0 .. n : s[k] = Step(s, k)
           Stuck == {n \in 0 .. l : ~ \E s : Way(s, n)}
<1> HIDE DEF l
<1>1. l \in Nat /\ \A i \in 1 .. l : amounts[i] \in Int
  BY DEF l
<1>2. Stuck = {}
  <2> SUFFICES ASSUME Stuck # {} PROVE FALSE
    OBVIOUS
  <2>1. PICK n \in Stuck : \A k \in Stuck : n <= k
    <3>1. Stuck \in SUBSET Nat
      BY <1>1
    <3> HIDE DEF Stuck
    <3> QED
      BY <3>1, LeastNatural
  <2>2. CASE n = 0
    <3>1. Way([k \in 0 .. 0 |-> 0], 0)
      OBVIOUS
    <3> QED
      BY <2>2, <3>1
  <2>3. CASE n # 0
    <3>1. n \in 1 .. l /\ n - 1 \in 0 .. l /\ n \in Nat /\ n - 1 \in Nat
      BY <1>1, <2>3
    <3>2. n - 1 \notin Stuck
      BY <2>1, <3>1
    <3>3. PICK s : Way(s, n - 1)
      BY <3>1, <3>2
    <3> DEFINE more == [k \in 0 .. n |-> IF k = n THEN s[n - 1] + amounts[n] ELSE s[k]]
    <3>4. \A k \in 0 .. (n - 1) : s[k] \in Int
      BY <3>3
    <3>5. s[n - 1] + amounts[n] \in Int
      BY <1>1, <3>1, <3>4
    <3>6. more \in [0 .. n -> Int]
      <4>1. \A k \in 0 .. n : k # n => k \in 0 .. (n - 1)
        BY <3>1
      <4> QED
        BY <3>4, <3>5, <4>1
    <3>7. \A k \in 0 .. n : more[k] = Step(more, k)
      <4> TAKE k \in 0 .. n
      <4>1. k # 0 => more[k - 1] = s[k - 1]
        BY <3>1
      <4>2. CASE k = n
        BY <2>3, <3>1, <4>1, <4>2
      <4>3. CASE k # n
        <5>1. k \in 0 .. (n - 1) /\ more[k] = s[k]
          BY <3>1, <4>3
        <5> QED
          BY <3>3, <4>1, <5>1
      <4> QED
        BY <4>2, <4>3
    <3>8. Way(more, n)
      <4> HIDE DEF more
      <4> QED
        BY <3>6, <3>7
    <3> QED
      BY <3>8
  <2> QED
    BY <2>2, <2>3
<1>3. PICK way : Way(way, l)
  <2> HIDE DEF Way
  <2>1. l \in 0 .. l
    BY <1>1
  <2> QED
    BY <1>2, <2>1
<1> DEFINE sum == CHOOSE s : s = [n \in 0 .. Len(amounts) |-> IF n = 0 THEN 0 ELSE s[n - 1] + amounts[n]]
<1>4. sum = [n \in 0 .. l |-> Step(sum, n)]
  <2>1. way = [n \in 0 .. Len(amounts) |-> IF n = 0 THEN 0 ELSE way[n - 1] + amounts[n]]
    BY <1>3 DEF l
  <2>2. \E s : s = [n \in 0 .. Len(amounts) |-> IF n = 0 THEN 0 ELSE s[n - 1] + amounts[n]]
    BY <2>1
  <2> QED
    BY <2>2 DEF l
<1>5. Total(amounts) = sum[l]
  BY DEF Total, l
<1> HIDE DEF sum
<1>6. \A n \in 0 .. l : sum[n] \in Int
  <2> DEFINE Odd == {n \in 0 .. l : sum[n] \notin Int}
  <2> SUFFICES ASSUME Odd # {} PROVE FALSE
    OBVIOUS
  <2>1. PICK n \in Odd : \A k \in Odd : n <= k
    <3>1. Odd \in SUBSET Nat
      BY <1>1
    <3> HIDE DEF Odd
    <3> QED
      BY <3>1, LeastNatural
  <2>2. n # 0
    BY <1>1, <1>4
  <2>3. n \in 1 .. l /\ n - 1 \in 0 .. l /\ n \in Nat
    BY <1>1, <2>2
  <2>4. sum[n - 1] \in Int
    BY <2>1, <2>3
  <2> QED
    BY <1>1, <1>4, <2>2, <2>3, <2>4
<1> QED
  BY <1>1, <1>5, <1>6

\* The two totals of a budget are integers.
LEMMA Variance ==
  ASSUME NEW ts \in Seq(TaskRows)
  PROVE  TotalCurr(ts) \in Int /\ TotalActual(ts) \in Int
<1>1. PICK n \in Nat : n = Len(ts) /\ DOMAIN ts = 1 .. n /\ \A i \in 1 .. n : ts[i] \in TaskRows
  BY LenProperties, ElementOfSeq
<1>2. \A i \in 1 .. n : ts[i].curr \in Int /\ ts[i].actual \in Int
  BY <1>1, MailAssumption
<1> DEFINE c == [i \in DOMAIN ts |-> ts[i].curr]
           a == [i \in DOMAIN ts |-> ts[i].actual]
<1>3. c \in [1 .. n -> Int] /\ a \in [1 .. n -> Int]
  BY <1>1, <1>2
<1>4. TotalCurr(ts) = Total(c) /\ TotalActual(ts) = Total(a)
  BY DEF TotalCurr, TotalActual
<1> HIDE DEF c, a
<1>5. c \in Seq(Int) /\ a \in Seq(Int) /\ Len(c) = n /\ Len(a) = n
  BY <1>3, SeqDef, LenProperties
<1>6. /\ Len(c) \in Nat /\ \A i \in 1 .. Len(c) : c[i] \in Int
      /\ Len(a) \in Nat /\ \A i \in 1 .. Len(a) : a[i] \in Int
  BY <1>3, <1>5
<1>7. Total(c) \in Int
  BY <1>6, TotalInt
<1>8. Total(a) \in Int
  BY <1>6, TotalInt
<1> QED
  BY <1>4, <1>7, <1>8

\* Every task has one of the three labels.
LEMMA TallyOfSeq ==
  ASSUME NEW ts \in Seq(TaskRows)
  PROVE  /\ Done(ts) = Cardinality({i \in DOMAIN ts : StatusLabel(ts[i].status) = "Done"})
         /\ Active(ts) = Cardinality({i \in DOMAIN ts : StatusLabel(ts[i].status) = "Active"})
         /\ Pending(ts) = Cardinality({i \in DOMAIN ts : StatusLabel(ts[i].status) = "Pending"})
         /\ Done(ts) + Active(ts) + Pending(ts) = Len(ts)
<1> DEFINE D == {i \in DOMAIN ts : ts[i].status = "done"}
           A == {i \in DOMAIN ts : ts[i].status \in {"active", "in_progress"}}
           P == {i \in DOMAIN ts : ts[i].status \notin {"done", "active", "in_progress"}}
<1>1. /\ D = {i \in DOMAIN ts : StatusLabel(ts[i].status) = "Done"}
      /\ A = {i \in DOMAIN ts : StatusLabel(ts[i].status) = "Active"}
      /\ P = {i \in DOMAIN ts : StatusLabel(ts[i].status) = "Pending"}
  BY DEF StatusLabel
<1>2. D \cap A = {} /\ (D \cup A) \cap P = {} /\ (D \cup A) \cup P = DOMAIN ts
  OBVIOUS
<1>3. D \subseteq DOMAIN ts /\ A \subseteq DOMAIN ts /\ P \subseteq DOMAIN ts
  OBVIOUS
<1>4. Done(ts) = Cardinality(D) /\ Active(ts) = Cardinality(A) /\ Pending(ts) = Cardinality(P)
  BY DEF Done, Active, Pending
<1>5. IsFiniteSet(DOMAIN ts) /\ Cardinality(DOMAIN ts) = Len(ts)
  BY DomainCounted
<1> HIDE DEF D, A, P
<1>6. /\ IsFiniteSet(D) /\ IsFiniteSet(A) /\ IsFiniteSet(P)
      /\ Cardinality(D) \in Nat /\ Cardinality(A) \in Nat /\ Cardinality(P) \in Nat
  BY <1>3, <1>5, FS_Subset, FS_CardinalityType
<1>7. Cardinality({}) = 0
  BY FS_EmptySet
<1>8. /\ IsFiniteSet(D \cup A)
      /\ Cardinality(D \cup A) = Cardinality(D) + Cardinality(A) - Cardinality(D \cap A)
  BY <1>6, FS_Union
<1>9. Cardinality((D \cup A) \cup P) = Cardinality(D \cup A) + Cardinality(P) - Cardinality((D \cup A) \cap P)
  BY <1>6, <1>8, FS_Union
<1>10. Cardinality(D) + Cardinality(A) + Cardinality(P) = Len(ts)
  <2>1. PICK d \in Nat, a \in Nat, n \in Nat : d = Cardinality(D) /\ a = Cardinality(A) /\ n = Cardinality(P)
    BY <1>6
  <2>2. Cardinality(D \cup A) = d + a - 0
    BY <1>2, <1>7, <1>8, <2>1
  <2>3. Len(ts) = Cardinality(D \cup A) + n - 0
    BY <1>2, <1>5, <1>7, <1>9, <2>1
  <2> QED
    BY <2>1, <2>2, <2>3
<1> QED
  BY <1>1, <1>4, <1>10

\* What is known of a letter that has been composed.
LEMMA ComposedKnown ==
  ASSUME MailInv, NEW kind \in LetterKinds, NEW l \in Composed(kind)
  PROVE  /\ l \in Letters /\ letter[l].kind = kind /\ letter[l].at = {}
         /\ letter[l].got \in GotRow /\ LetterOK(letter[l])
         /\ kind # "digest" => \E p \in Authored : letter[l].about = {p}
<1>1. l \in Letters /\ letter[l].kind = kind /\ letter[l].pc \in {"send", "log", "done"}
  BY DEF Composed
<1>2. letter[l] \in LetterRow /\ LetterOK(letter[l])
  BY <1>1 DEF MailInv
<1>3. kind # "none"
  BY DEF LetterKinds
<1> QED
  BY <1>1, <1>2, <1>3 DEF LetterOK, LetterRow

\* Either part of a snapshot states the variance, each in its own words when
\* it is 0, and the HTML may list three fields more.
LEMMA SnapshotsAgree ==
  ASSUME MailInv, NEW l \in Composed("snapshot")
  PROVE  {f \in SnapshotHTML(l) : f[1] # "form" \/ f[2] \in FormStatus} \ {<<"on budget", 0>>}
            = SnapshotText(l) \ {<<"under", 0>>}
<1>1. "snapshot" \in LetterKinds /\ "snapshot" # "digest"
  BY DEF LetterKinds
<1>2. PICK got \in GotRow, p \in Authored : got = letter[l].got /\ letter[l].about = {p}
  BY <1>1, ComposedKnown
<1>3. p = Only(letter[l].about)
  BY <1>2 DEF Only
<1>4. PICK ts \in Seq(TaskRows) : ts = got.tasks
  BY DEF GotRow
<1>5. PICK v \in Int : v = TotalCurr(ts) - TotalActual(ts)
  BY Variance
<1> DEFINE common == Tally(ts) \cup TaskFacts(ts) \cup {<<"budget", TotalCurr(ts), TotalActual(ts)>>}
                     \cup FileFacts(p, got.files[p]) \cup JournalFacts(p, got.journal[p])
           X == IF v < 0 THEN <<"over", -v>> ELSE IF v = 0 THEN <<"on budget", 0>> ELSE <<"under", v>>
           Y == IF v >= 0 THEN <<"under", v>> ELSE <<"over", -v>>
           all == {<<"form", f>> : f \in got.filled \cap (FormStatus \cup {"publisher", "mechs_delivery", "weeks"})}
           some == {<<"form", f>> : f \in got.filled \cap FormStatus}
<1>6. SnapshotHTML(l) = common \cup {X} \cup all
  BY <1>2, <1>3, <1>4, <1>5, ZenonT(30) DEF SnapshotHTML
<1>7. SnapshotText(l) = common \cup {Y} \cup some
  BY <1>2, <1>3, <1>4, <1>5 DEF SnapshotText
<1>8. \A f \in common : f[1] # "form" /\ f[1] # "on budget" /\ f[1] # "under"
  <2>1. \A f \in Tally(ts) : f[1] \in {"Complete", "Done", "Active", "Pending"}
    BY DEF Tally
  <2>2. \A f \in TaskFacts(ts) : f[1] = "task"
    BY DEF TaskFacts
  <2>3. \A f \in FileFacts(p, got.files[p]) : f[1] = "file"
    BY DEF FileFacts
  <2>4. \A f \in JournalFacts(p, got.journal[p]) : f[1] = "entry"
    BY DEF JournalFacts
  <2>5. \A f \in {<<"budget", TotalCurr(ts), TotalActual(ts)>>} : f[1] = "budget"
    OBVIOUS
  <2>6. \A f \in common : f[1] \in {"Complete", "Done", "Active", "Pending", "task", "file", "entry", "budget"}
    BY <2>1, <2>2, <2>3, <2>4, <2>5
  <2> HIDE DEF common
  <2> QED
    BY <2>6
<1> HIDE DEF common
<1>9. PICK on, under : /\ on = <<"on budget", 0>> /\ on[1] = "on budget" /\ on[2] = 0
                      /\ under = <<"under", 0>> /\ under[1] = "under" /\ under[2] = 0
  <2>1. <<"on budget", 0>>[1] = "on budget" /\ <<"on budget", 0>>[2] = 0
    OBVIOUS
  <2>2. <<"under", 0>>[1] = "under" /\ <<"under", 0>>[2] = 0
    OBVIOUS
  <2> QED
    BY <2>1, <2>2
<1>10. X[1] # "form" /\ {X} \ {on} = {Y} \ {under}
  <2>1. CASE v < 0
    <3>1. X = <<"over", -v>> /\ Y = X
      BY <2>1
    <3>2. X[1] = "over"
      BY <3>1
    <3> QED
      BY <1>9, <3>1, <3>2
  <2>2. CASE v = 0
    <3>0. ~ (v < 0) /\ v >= 0
      BY <2>2
    <3>1. X = on /\ Y = under
      BY <1>9, <2>2, <3>0, Zenon
    <3> QED
      BY <1>9, <3>1
  <2>3. CASE v > 0
    <3>0. ~ (v < 0) /\ v >= 0 /\ v # 0
      BY <2>3
    <3>1. X = <<"under", v>> /\ Y = X
      BY <3>0, Zenon
    <3>2. X[1] = "under" /\ X[2] = v /\ v # 0
      BY <2>3, <3>1
    <3> QED
      BY <1>9, <3>1, <3>2
  <2>4. v < 0 \/ v = 0 \/ v > 0
    OBVIOUS
  <2> HIDE DEF X, Y
  <2> QED
    BY <2>1, <2>2, <2>3, <2>4, Zenon
<1>11. \A f \in all : f[1] = "form" /\ (f \in some <=> f[2] \in FormStatus)
  <2> TAKE f \in all
  <2>1. PICK x \in got.filled \cap (FormStatus \cup {"publisher", "mechs_delivery", "weeks"}) : f = <<"form", x>>
    OBVIOUS
  <2>2. f[1] = "form" /\ f[2] = x
    BY <2>1
  <2>3. ASSUME f \in some PROVE x \in FormStatus
    <3>1. PICK y \in got.filled \cap FormStatus : f = <<"form", y>>
      BY <2>3
    <3>2. f[2] = y
      BY <3>1
    <3> QED
      BY <2>2, <3>2
  <2>4. x \in FormStatus => f \in some
    BY <2>1
  <2> HIDE DEF some
  <2> QED
    BY <2>2, <2>3, <2>4
<1>12. some \subseteq all
  OBVIOUS
<1> HIDE DEF X, Y, all, some
<1> QED
  <2>1. \A f \in common : f # on /\ f # under /\ f[1] # "form"
    BY <1>8, <1>9
  <2>2. \A f \in all : f # on /\ f # under
    BY <1>9, <1>11
  <2>3. {f \in SnapshotHTML(l) : f[1] # "form" \/ f[2] \in FormStatus} = common \cup {X} \cup some
    BY <1>6, <1>10, <1>11, <1>12, <2>1
  <2>4. {f \in SnapshotHTML(l) : f[1] # "form" \/ f[2] \in FormStatus} \ {on} = common \cup ({X} \ {on}) \cup some
    BY <1>12, <2>1, <2>2, <2>3
  <2>5. SnapshotText(l) \ {under} = common \cup ({Y} \ {under}) \cup some
    BY <1>7, <1>12, <2>1, <2>2
  <2> QED
    BY <1>9, <1>10, <2>4, <2>5

\* The text leaves empty lists out, which state nothing.
LEMMA ActivitiesAgree ==
  ASSUME NEW l
  PROVE  ActivityHTML(l) = ActivityText(l)
<1> DEFINE f == letter[l].got.files[Only(letter[l].about)]
           j == letter[l].got.journal[Only(letter[l].about)]
<1>1. f = <<>> => FileFacts(Only(letter[l].about), f) = {}
  BY DEF FileFacts
<1>2. j = <<>> => JournalFacts(Only(letter[l].about), j) = {}
  BY DEF JournalFacts
<1> QED
  BY <1>1, <1>2 DEF ActivityHTML, ActivityText

\* The gates of the two parts let the same fields through.
LEMMA TransmittalsAgree ==
  ASSUME NEW l
  PROVE  TransmittalHTML(l) = TransmittalText(l)
BY DEF TransmittalHTML, TransmittalText, BookFields, ManuscriptFields, DesignFields

\* Facts that name the project and place of a row are as many as the rows.
LEMMA FactsCounted ==
  ASSUME NEW f \in [Authored -> Seq(LogRows)], NEW g, NEW T,
         g = [c \in Cells(f, Authored) |-> g[c]], T = {g[c] : c \in Cells(f, Authored)},
         \A c \in Cells(f, Authored) : g[c][2] = c[1] /\ g[c][3] = c[2]
  PROVE  Cardinality(T) = Cardinality(Cells(f, Authored))
<1> DEFINE C == Cells(f, Authored)
<1>1. \A c \in C : c = <<c[1], c[2]>>
  <2> TAKE c \in C
  <2>1. PICK p \in Authored : c \in {p} \X DOMAIN f[p]
    BY DEF Cells
  <2> QED
    BY <2>1
<1>2. IsFiniteSet(C)
  BY CellsFinite
<1> HIDE DEF C
<1>3. g \in [C -> T]
  BY DEF C
<1>4. \A c, d \in C : g[c] = g[d] => c = d
  <2> SUFFICES ASSUME NEW c \in C, NEW d \in C, g[c] = g[d] PROVE c = d
    OBVIOUS
  <2>1. c[1] = d[1] /\ c[2] = d[2]
    BY DEF C
  <2> QED
    BY <1>1, <2>1
<1>5. g \in Injection(C, T)
  BY <1>3, <1>4 DEF Injection, IsInjective
<1>6. g \in Surjection(C, T)
  <2>1. \A t \in T : \E c \in C : g[c] = t
    BY DEF C
  <2> QED
    BY <1>3, <2>1 DEF Surjection
<1>7. ExistsBijection(C, T)
  BY <1>5, <1>6 DEF ExistsBijection, Bijection
<1> QED
  BY <1>2, <1>7, FS_Bijection DEF C

\* The totals of a digest count its rows, and without rows they are 0.
LEMMA DigestsAddUp ==
  ASSUME MailInv, NEW l \in Composed("digest")
  PROVE  /\ letter[l].got.counted.files = Cardinality({f \in DigestHTML(l) : f[1] = "file"})
         /\ letter[l].got.counted.journal = Cardinality({f \in DigestHTML(l) : f[1] = "entry"})
         /\ letter[l].got.counted.files + letter[l].got.counted.journal > 0
              => DigestHTML(l) = DigestText(l)
<1>1. "digest" \in LetterKinds
  BY DEF LetterKinds
<1>2. PICK got \in GotRow : got = letter[l].got
  BY <1>1, ComposedKnown
<1>3. PICK files_, journal_ \in [Authored -> Seq(LogRows)] : files_ = got.files /\ journal_ = got.journal
  BY DEF GotRow
<1>4. /\ got.counted.files = Cardinality(Cells(files_, Authored))
      /\ got.counted.journal = Cardinality(Cells(journal_, Authored))
  <2>1. LetterOK(letter[l]) /\ letter[l].kind = "digest" /\ letter[l].at = {}
    BY <1>1, ComposedKnown
  <2>2. Authored \ letter[l].at = Authored
    BY <2>1
  <2> QED
    BY <1>2, <1>3, <2>1, <2>2 DEF LetterOK
<1> DEFINE with == {p \in Authored : files_[p] # <<>> \/ journal_[p] # <<>>}
           rows == UNION {FileFacts(p, files_[p]) \cup JournalFacts(p, journal_[p]) : p \in with}
           entries == {f \in DigestHTML(l) : f[1] = "file"}
<1>5. Sections(got) = with
  BY <1>3 DEF Sections
<1>6. DigestHTML(l) = IF with = {} THEN {<<"nothing">>}
                      ELSE {<<"counts", Cardinality(with), got.counted.files, got.counted.journal>>} \cup rows
  BY <1>2, <1>3, <1>5 DEF DigestHTML
<1>7. DigestText(l) = {<<"counts", Cardinality(with), got.counted.files, got.counted.journal>>}
                      \cup IF with = {} THEN {<<"nothing">>} ELSE rows
  BY <1>2, <1>3, <1>5 DEF DigestText
<1>8. with = {} => Cells(files_, Authored) = {} /\ Cells(journal_, Authored) = {}
  <2> SUFFICES ASSUME with = {} PROVE Cells(files_, Authored) = {} /\ Cells(journal_, Authored) = {}
    OBVIOUS
  <2>1. \A p \in Authored : files_[p] = <<>> /\ journal_[p] = <<>>
    OBVIOUS
  <2> QED
    BY <2>1 DEF Cells
<1>9. {f \in DigestHTML(l) : f[1] = "file"} = {f \in rows : f[1] = "file"}
  <2>1. with = {} => rows = {}
    OBVIOUS
  <2> HIDE DEF with, rows
  <2>2. \A x : x \in {<<"nothing">>} => x[1] # "file"
    OBVIOUS
  <2>3. \A x : x \in {<<"counts", Cardinality(with), got.counted.files, got.counted.journal>>} => x[1] # "file"
    OBVIOUS
  <2> QED
    BY <1>6, <2>1, <2>2, <2>3
<1>10. {f \in DigestHTML(l) : f[1] = "entry"} = {f \in rows : f[1] = "entry"}
  <2>1. with = {} => rows = {}
    OBVIOUS
  <2> HIDE DEF with, rows
  <2>2. \A x : x \in {<<"nothing">>} => x[1] # "entry"
    OBVIOUS
  <2>3. \A x : x \in {<<"counts", Cardinality(with), got.counted.files, got.counted.journal>>} => x[1] # "entry"
    OBVIOUS
  <2> QED
    BY <1>6, <2>1, <2>2, <2>3
<1> DEFINE g == [c \in Cells(files_, Authored) |->
                   <<"file", c[1], c[2], files_[c[1]][c[2]].day, IF files_[c[1]][c[2]].out THEN "out" ELSE "in">>]
           h == [c \in Cells(journal_, Authored) |-> <<"entry", c[1], c[2], journal_[c[1]][c[2]].day>>]
<1>11. {f \in rows : f[1] = "file"} = {g[c] : c \in Cells(files_, Authored)}
  <2>1. ASSUME NEW x \in rows, x[1] = "file" PROVE \E c \in Cells(files_, Authored) : x = g[c]
    <3>1. PICK p \in with : x \in FileFacts(p, files_[p]) \/ x \in JournalFacts(p, journal_[p])
      OBVIOUS
    <3>2. x \notin JournalFacts(p, journal_[p])
      <4>1. \A y \in JournalFacts(p, journal_[p]) : y[1] = "entry"
        BY DEF JournalFacts
      <4> QED
        BY <2>1, <4>1
    <3>3. PICK i \in DOMAIN files_[p] :
             x = <<"file", p, i, files_[p][i].day, IF files_[p][i].out THEN "out" ELSE "in">>
      BY <3>1, <3>2 DEF FileFacts
    <3>4. <<p, i>> \in Cells(files_, Authored)
      BY DEF Cells
    <3>5. g[<<p, i>>] = x
      BY <3>3, <3>4
    <3> QED
      BY <3>4, <3>5
  <2>2. ASSUME NEW c \in Cells(files_, Authored) PROVE g[c] \in rows /\ g[c][1] = "file"
    <3>1. PICK p \in Authored : c \in {p} \X DOMAIN files_[p]
      BY DEF Cells
    <3>2. c[1] = p /\ c[2] \in DOMAIN files_[p]
      BY <3>1
    <3>3. g[c] \in FileFacts(p, files_[p])
      BY <3>2 DEF FileFacts
    <3>4. p \in with
      BY <3>2
    <3>5. g[c][1] = "file"
      OBVIOUS
    <3> QED
      BY <3>3, <3>4, <3>5
  <2> HIDE DEF g, rows
  <2> QED
    BY <2>1, <2>2
<1>12. {f \in rows : f[1] = "entry"} = {h[c] : c \in Cells(journal_, Authored)}
  <2>1. ASSUME NEW x \in rows, x[1] = "entry" PROVE \E c \in Cells(journal_, Authored) : x = h[c]
    <3>1. PICK p \in with : x \in FileFacts(p, files_[p]) \/ x \in JournalFacts(p, journal_[p])
      OBVIOUS
    <3>2. x \notin FileFacts(p, files_[p])
      <4>1. \A y \in FileFacts(p, files_[p]) : y[1] = "file"
        BY DEF FileFacts
      <4> QED
        BY <2>1, <4>1
    <3>3. PICK i \in DOMAIN journal_[p] : x = <<"entry", p, i, journal_[p][i].day>>
      BY <3>1, <3>2 DEF JournalFacts
    <3>4. <<p, i>> \in Cells(journal_, Authored)
      BY DEF Cells
    <3>5. h[<<p, i>>] = x
      BY <3>3, <3>4
    <3> QED
      BY <3>4, <3>5
  <2>2. ASSUME NEW c \in Cells(journal_, Authored) PROVE h[c] \in rows /\ h[c][1] = "entry"
    <3>1. PICK p \in Authored : c \in {p} \X DOMAIN journal_[p]
      BY DEF Cells
    <3>2. c[1] = p /\ c[2] \in DOMAIN journal_[p]
      BY <3>1
    <3>3. h[c] \in JournalFacts(p, journal_[p])
      BY <3>2 DEF JournalFacts
    <3>4. p \in with
      BY <3>2
    <3>5. h[c][1] = "entry"
      OBVIOUS
    <3> QED
      BY <3>3, <3>4, <3>5
  <2> HIDE DEF h, rows
  <2> QED
    BY <2>1, <2>2
<1>13. /\ g = [c \in Cells(files_, Authored) |-> g[c]]
       /\ \A c \in Cells(files_, Authored) : g[c][2] = c[1] /\ g[c][3] = c[2]
  OBVIOUS
<1>14. /\ h = [c \in Cells(journal_, Authored) |-> h[c]]
       /\ \A c \in Cells(journal_, Authored) : h[c][2] = c[1] /\ h[c][3] = c[2]
  OBVIOUS
<1> HIDE DEF g, h, rows
<1>15. Cardinality({f \in rows : f[1] = "file"}) = Cardinality(Cells(files_, Authored))
  BY <1>11, <1>13, FactsCounted
<1>16. Cardinality({f \in rows : f[1] = "entry"}) = Cardinality(Cells(journal_, Authored))
  BY <1>12, <1>14, FactsCounted
<1>17. ASSUME got.counted.files + got.counted.journal > 0
       PROVE  DigestHTML(l) = DigestText(l)
  <2>1. Cardinality({}) = 0
    BY FS_EmptySet
  <2>2. with # {}
    <3> SUFFICES ASSUME with = {} PROVE FALSE
      OBVIOUS
    <3>1. Cells(files_, Authored) = {} /\ Cells(journal_, Authored) = {}
      BY <1>8
    <3>2. got.counted.files = 0 /\ got.counted.journal = 0
      BY <1>4, <2>1, <3>1
    <3> QED
      BY <1>17, <3>2
  <2> HIDE DEF with
  <2> QED
    BY <1>6, <1>7, <2>2
<1> QED
  BY <1>2, <1>4, <1>9, <1>10, <1>15, <1>16, <1>17

\* The audit copy is added where there is none.
LEMMA AuditOnce ==
  ASSUME NEW to \in Seq(Addresses)
  PROVE  Cardinality(AuditCopies(to \o Bcc(to)))
           = IF AuditCopies(to) = {} THEN 1 ELSE Cardinality(AuditCopies(to))
<1>1. PICK n \in Nat : n = Len(to) /\ DOMAIN to = 1 .. n
  BY LenProperties
<1>2. CASE AuditCopies(to) = {}
  <2>1. Bcc(to) = <<Audit>>
    BY <1>2 DEF Bcc, AuditCopies
  <2>2. PICK one \in Seq(Addresses) : one = <<Audit>> /\ Len(one) = 1 /\ one[1] = Audit
    <3>1. Audit \in Addresses
      BY MailAssumption, Zenon
    <3>2. <<Audit>> \in Seq(Addresses)
      BY <3>1
    <3> QED
      BY <3>2
  <2>3. PICK list \in Seq(Addresses) :
           /\ list = to \o one /\ Len(list) = n + 1
           /\ \A i \in 1 .. (n + 1) : list[i] = IF i <= n THEN to[i] ELSE one[i - n]
    <3>1. /\ to \o one \in Seq(Addresses) /\ Len(to \o one) = Len(to) + Len(one)
          /\ \A i \in 1 .. Len(to) + Len(one) : (to \o one)[i] =
                IF i <= Len(to) THEN to[i] ELSE one[i - Len(to)]
      BY <2>2, ConcatProperties
    <3> QED
      BY <1>1, <2>2, <3>1
  <2>4. DOMAIN list = 1 .. (n + 1)
    BY <2>3, LenProperties
  <2>5. list[n + 1] = Audit /\ \A i \in 1 .. n : list[i] = to[i]
    BY <2>2, <2>3
  <2>6. AuditCopies(list) = {n + 1}
    <3>1. \A i \in 1 .. n : ~ SameMailbox(to[i], Audit)
      BY <1>1, <1>2 DEF AuditCopies
    <3>2. SameMailbox(Audit, Audit)
      BY DEF SameMailbox
    <3>3. \A i \in 1 .. (n + 1) : SameMailbox(list[i], Audit) <=> i = n + 1
      BY <2>5, <3>1, <3>2
    <3> QED
      BY <2>4, <3>3 DEF AuditCopies
  <2>7. Cardinality({n + 1}) = 1
    BY FS_Singleton
  <2> QED
    BY <1>2, <2>1, <2>2, <2>3, <2>6, <2>7
<1>3. CASE AuditCopies(to) # {}
  <2>1. Bcc(to) = <<>>
    BY <1>3 DEF Bcc, AuditCopies
  <2>2. to \o <<>> = to
    OBVIOUS
  <2> QED
    BY <1>3, <2>1, <2>2
<1> QED
  BY <1>2, <1>3

\* The invariant is enough.
LEMMA MailInvSafe == MailInv => MailSafe
<1> SUFFICES ASSUME MailInv PROVE MailSafe
  OBVIOUS
<1>1. MailTypeOK
  <2>1. \A l \in Letters :
          /\ letter[l].pc \in {"idle", "tasks", "form", "files", "journal", "send", "log", "done", "failed"}
          /\ letter[l].about \subseteq Authored /\ letter[l].left \subseteq letter[l].about
          /\ letter[l].at \subseteq letter[l].about \ letter[l].left
          /\ letter[l].status \in {0, 200, 500}
    <3> TAKE l \in Letters
    <3>1. PICK b \in LetterRow : b = letter[l] /\ LetterOK(b) /\ b.about \subseteq Authored
      BY LetterKnown
    <3>2. b.pc \in {"idle", "tasks", "form", "files", "journal", "send", "log", "done", "failed"}
      BY DEF LetterRow
    <3>3. b.status \in {0, 200, 500}
      BY DEF LetterRow
    <3>4. b.left \subseteq b.about /\ b.at \subseteq b.about \ b.left
      BY <3>1 DEF LetterOK
    <3> QED
      BY <3>1, <3>2, <3>3, <3>4
  <2> QED
    BY <2>1 DEF MailInv, MailTypeOK, TablesOK, FormFields
<1>2. TallyMatchesTable
  <2> SUFFICES ASSUME NEW l \in Composed("snapshot") 
               PROVE  LET ts == letter[l].got.tasks
                          labelled(s) == Cardinality({i \in DOMAIN ts : StatusLabel(ts[i].status) = s})
                      IN /\ Done(ts) = labelled("Done") /\ Active(ts) = labelled("Active")
                         /\ Pending(ts) = labelled("Pending")
                         /\ Done(ts) + Active(ts) + Pending(ts) = Len(ts)
    BY DEF TallyMatchesTable
  <2>1. letter[l].got \in GotRow
    BY ComposedKnown DEF LetterKinds
  <2>2. letter[l].got.tasks \in Seq(TaskRows)
    BY <2>1 DEF GotRow
  <2> QED
    BY <2>2, TallyOfSeq
<1>3. PartsAgree
  BY SnapshotsAgree, ActivitiesAgree, DigestsAddUp, TransmittalsAgree DEF PartsAgree
<1>4. DigestAddsUp
  BY DigestsAddUp DEF DigestAddsUp
<1>5. AuditCopy
  <2>1. \A l \in taken : letter[l].to \in Seq(Addresses)
    BY DEF MailInv, LetterRow
  <2> QED
    BY <2>1, AuditOnce DEF AuditCopy
<1>6. ReportTruthful
  <2>1. \A r \in report \ FailedRows : r.status = 200
    BY DEF MailInv, FailedRows
  <2> QED
    BY <2>1 DEF MailInv, ReportTruthful
<1> QED
  BY <1>1, <1>2, <1>3, <1>4, <1>5, <1>6 DEF MailSafe

\* A mail tells one story, whatever is added to or deleted from the tables while
\* it is composed query by query, and whichever query fails: its tallies are
\* those of its table, its HTML and its text state the same facts, the digest's
\* totals are the rows it lists, the studio gets the copies it was addressed or
\* one, and a letter the report does not list as failed was taken.
THEOREM LettersAreSafe == MailSpec => []MailSafe
<1>1. MailInit => MailInv
  BY MailBegin
<1>2. MailInv /\ [MailNext]_mailVars => MailInv'
  BY MailStep
<1>3. MailInv => MailSafe
  BY MailInvSafe
<1> QED
  BY <1>1, <1>2, <1>3, PTL DEF MailSpec
=============================================================================
