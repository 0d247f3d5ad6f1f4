---------------------------- MODULE PortalProofs ----------------------------
(***************************************************************************)
(* What TLAPS proves of Slugs, of Workshop, of Throttle and of SignIn: any *)
(* number of clients, projects, renames, registrations, coupons and        *)
(* batches, any keys, limits, windows and callers, any number of link      *)
(* requests, openings, resets and rolls, and every lifetime and limit.     *)
(***************************************************************************)
EXTENDS Slugs, Workshop, Throttle, SignIn, FiniteSetTheorems, SequenceTheorems,
        WellFoundedInduction, TLAPS

-----------------------------------------------------------------------------
(* Addresses.  The redirects end because of three facts about the table,   *)
(* which every rename keeps: no target is itself an old address, a client  *)
(* alias leads to a client, and an alias leaves its client only if that    *)
(* client has an alias of its own.                                         *)

NoTargetAliased == \A a \in DOMAIN aliases : aliases[a] \notin DOMAIN aliases

ClientsToClients ==
  \A a \in DOMAIN aliases : a.project = Portal => aliases[a].project = Portal

LeavesByClient ==
  \A a \in DOMAIN aliases :
    aliases[a].client # a.client => At(a.client, Portal) \in DOMAIN aliases

\* UNIQUE(client_slug, project_slug).
PathsApart == \A p, q \in Live : path[p] = path[q] => p = q

\* Where a rename is, is a record of two fields; an edit in flight is of a
\* project and holds an address.
RequestsOK ==
  /\ renaming = [r \in Renames |-> [pc |-> renaming[r].pc, rows |-> renaming[r].rows]]
  /\ \A e \in Edits : editing[e].pc \in {"create", "update"} =>
                        editing[e].project \in Projects /\ editing[e].row \in Address

\* Nobody but a PUT takes a project to a client that is not there.
ClientsOfPaths == ~ moved => \A p \in Live : path[p].client \in clients

\* While the renames have not crossed, one at most is being loaded, the rows it
\* has read are the table, and without any the router's copy is.
LoadsOK ==
  ~ crossed => /\ \A r, x \in Renames : Loading(r) /\ Loading(x) => r = x
               /\ \A r \in Renames : renaming[r].pc = "install" => renaming[r].rows = aliases

TableInv == NoTargetAliased /\ ClientsToClients /\ LeavesByClient

SlugsInv ==
  /\ SlugsTypeOK
  /\ RequestsOK
  /\ PathsApart
  /\ TableInv
  /\ AliasTargetsLive
  /\ ClientsOfPaths
  /\ NotShadowed
  /\ LoadsOK
  /\ RouterFollows
-----------------------------------------------------------------------------
(* Least and greatest numbers: Min and Max choose what they are named for. *)

\* A set of natural numbers that is not empty has a least.
LEMMA LeastNatural ==
  ASSUME NEW S \in SUBSET Nat, S # {}
  PROVE  \E m \in S : \A k \in S : m <= k
<1> DEFINE R == {ss \in Nat \X Nat : ss[1] < ss[2]}
<1>1. IsWellFoundedOn(R, Nat)
  BY NatLessThanWellFounded DEF OpToRel
<1>2. \E m \in S : \A k \in S : ~ (<<k, m>> \in R)
  <2> HIDE DEF R
  <2> QED
    BY <1>1, WFMin, Zenon
<1>3. \A k, m \in Nat : ~ (<<k, m>> \in R) => m <= k
  OBVIOUS
<1> QED
  BY <1>2, <1>3

\* Min is the least member.
LEMMA MinIsLeast ==
  ASSUME NEW S \in SUBSET Nat, S # {}
  PROVE  Min(S) \in S
<1>1. \E m \in S : \A k \in S : m <= k
  BY LeastNatural
<1> QED
  BY <1>1 DEF Min

\* Max is the greatest member of a bounded set.
LEMMA MaxIsGreatest ==
  ASSUME NEW S \in SUBSET Nat, S # {}, NEW bound \in Nat, \A k \in S : k <= bound
  PROVE  Max(S) \in S /\ \A k \in S : k <= Max(S)
<1> DEFINE Bounds == {m \in Nat : \A k \in S : k <= m}
<1>1. PICK m \in Bounds : \A n \in Bounds : m <= n
  BY LeastNatural
<1>2. m \in S
  <2> SUFFICES ASSUME m \notin S PROVE FALSE
    OBVIOUS
  <2>1. PICK k \in S : TRUE
    OBVIOUS
  <2>2. m - 1 \in Nat /\ \A n \in S : n <= m - 1
    BY <2>1
  <2>3. m - 1 \in Bounds
    BY <2>2
  <2> QED
    BY <1>1, <2>2, <2>3
<1>3. \E x \in S : \A k \in S : x >= k
  BY <1>2
<1>4. Max(S) \in S /\ \A k \in S : Max(S) >= k
  BY <1>3 DEF Max
<1> QED
  BY <1>4

\* nextProjectSlug: above every number the client has given, its projects' and
\* its aliases'.
LEMMA NextBookIsNew ==
  ASSUME SlugsTypeOK, NEW c \in Slug
  PROVE  /\ NextBook(c) \in Nat \ {0}
         /\ \A n \in BookNumbers(c) : n < NextBook(c)
<1> DEFINE S == BookNumbers(c) \cup {0}
<1>1. MaxBook \in Nat /\ BookNumbers(c) \subseteq 1..MaxBook
  BY SlugsAssumption DEF BookNumbers
<1>2. S \in SUBSET Nat /\ S # {} /\ \A k \in S : k <= MaxBook
  BY <1>1
<1>3. Max(S) \in S /\ \A k \in S : k <= Max(S)
  <2> HIDE DEF S
  <2> QED
    BY <1>1, <1>2, MaxIsGreatest
<1> QED
  BY <1>1, <1>2, <1>3 DEF NextBook

\* uniqueClientSlug: a name nobody has and no alias is of.
LEMMA FreeSlugIsFree ==
  ASSUME FreeClientSlugs # {}
  PROVE  Min(FreeClientSlugs) \in FreeClientSlugs
<1>1. FreeClientSlugs \in SUBSET Nat
  BY DEF FreeClientSlugs, Slug
<1> QED
  BY <1>1, MinIsLeast
-----------------------------------------------------------------------------
(* What the actions do to the rows.                                        *)

\* Every value a project's address takes is one of its type.
LEMMA AddressIs ==
  ASSUME NEW c \in Slug, NEW s \in 0..Title
  PROVE  /\ At(c, s) \in Address /\ At(c, s).client = c /\ At(c, s).project = s
         /\ s # 0 => At(c, s) \in [client: Slug, project: 1..Title]
         /\ At(c, s) # NoPath
  BY SlugsAssumption DEF At, Address, NoPath, Slug, Title

\* An address is its client and its project.
LEMMA AddressIsPair ==
  ASSUME NEW a \in Address
  PROVE  /\ a.client \in Slug /\ a.project \in 0..Title
         /\ a = At(a.client, a.project)
  BY DEF Address, At

\* A live project has an address with a number.
LEMMA LivePath ==
  ASSUME SlugsTypeOK, NEW p \in Live
  PROVE  /\ p \in Projects /\ path[p] \in Address
         /\ path[p].client \in Slug /\ path[p].project \in 1..Title
         /\ path[p] \in [client: Slug, project: 1..Title]
<1>1. path[p] \in [client: Slug, project: 1..Title] /\ p \in Projects
  BY DEF Live, SlugsTypeOK
<1> QED
  BY <1>1, SlugsAssumption DEF Address, Title

\* What fulfillPass creates: a client that was not there, and a number above
\* all of the client's.
LEMMA Fulfilled ==
  ASSUME SlugsTypeOK, NEW p \in Projects, FulfilPortal(p)
  PROVE  \E a \in [client: Slug, project: 1..MaxBook] :
           /\ a.client \in FreeClientSlugs
           /\ a.project \notin BookNumbers(a.client)
           /\ clients' = clients \cup {a.client}
           /\ path[p] = NoPath
           /\ path' = [path EXCEPT ![p] = a] /\ mailed' = [mailed EXCEPT ![p] = a]
           /\ a \in [client: Slug, project: 1..Title] /\ a \in Address
           /\ a # NoPath
<1> DEFINE c == Min(FreeClientSlugs)
<1>1. c \in FreeClientSlugs /\ c \in Slug
  BY FreeSlugIsFree DEF FulfilPortal, FreeClientSlugs
<1>2. NextBook(c) \in 1..MaxBook /\ NextBook(c) \notin BookNumbers(c)
  <2>1. NextBook(c) \in Nat \ {0} /\ \A n \in BookNumbers(c) : n < NextBook(c)
    BY <1>1, NextBookIsNew
  <2>2. NextBook(c) <= MaxBook
    BY DEF FulfilPortal
  <2> QED
    BY <2>1, <2>2, SlugsAssumption
<1> DEFINE a == At(c, NextBook(c))
<1>3. /\ a \in [client: Slug, project: 1..MaxBook] /\ a.client = c /\ a.project = NextBook(c)
      /\ a \in [client: Slug, project: 1..Title] /\ a \in Address /\ a # NoPath
  BY <1>1, <1>2, SlugsAssumption DEF At, Address, Title, NoPath
<1>4. /\ clients' = clients \cup {c} /\ path[p] = NoPath
      /\ path' = [path EXCEPT ![p] = a] /\ mailed' = [mailed EXCEPT ![p] = a]
  BY DEF FulfilPortal
<1> HIDE DEF a, c
<1> QED
  BY <1>1, <1>2, <1>3, <1>4

\* The table after a client was renamed.
LEMMA ClientAliased ==
  ASSUME SlugsTypeOK, NEW r \in Renames, NEW old \in Slug, NEW new \in Slug,
         RenameClient(r, old, new)
  PROVE  /\ old # new
         /\ DOMAIN aliases' = {a \in DOMAIN aliases : a.client # new} \cup {At(old, Portal)}
         /\ \A a \in DOMAIN aliases' :
              aliases'[a] = IF a = At(old, Portal) THEN At(new, Portal)
                            ELSE IF aliases[a].client = old THEN [aliases[a] EXCEPT !.client = new]
                            ELSE aliases[a]
<1>1. old # new
  BY DEF RenameClient
<1>2. DOMAIN aliases \subseteq Address
  BY DEF SlugsTypeOK, IsAliases
<1>3. DOMAIN aliases \ {a \in Address : a.client = new} = {a \in DOMAIN aliases : a.client # new}
  BY <1>2
<1>4. aliases' = Record(FollowClient(aliases, old, new), {a \in Address : a.client = new},
                        At(old, Portal), At(new, Portal))
  BY DEF RenameClient
<1>5. DOMAIN FollowClient(aliases, old, new) = DOMAIN aliases
  BY DEF FollowClient
<1>6. \A a \in DOMAIN aliases :
        FollowClient(aliases, old, new)[a] =
          IF aliases[a].client = old THEN [aliases[a] EXCEPT !.client = new] ELSE aliases[a]
  BY DEF FollowClient
<1>7. DOMAIN aliases' = {a \in DOMAIN aliases : a.client # new} \cup {At(old, Portal)}
  BY <1>3, <1>4, <1>5 DEF Record
<1>8. \A a \in DOMAIN aliases' :
         aliases'[a] = IF a = At(old, Portal) THEN At(new, Portal)
                       ELSE FollowClient(aliases, old, new)[a]
  BY <1>4 DEF Record
<1> QED
  BY <1>1, <1>6, <1>7, <1>8

\* The table after a project was renamed.
LEMMA ProjectAliased ==
  ASSUME SlugsTypeOK, NEW r \in Renames, NEW p \in Projects, NEW s \in 1..Title,
         RenameProject(r, p, s)
  PROVE  \E to \in [client: Slug, project: 1..Title] :
           /\ p \in Live /\ path[p] # to /\ to \notin Paths
           /\ to \in Address /\ to.client = path[p].client
           /\ path' = [path EXCEPT ![p] = to]
           /\ DOMAIN aliases' = (DOMAIN aliases \ {to}) \cup {path[p]}
           /\ \A a \in DOMAIN aliases' :
                aliases'[a] = IF a = path[p] \/ aliases[a] = path[p] THEN to ELSE aliases[a]
<1> DEFINE to == At(path[p].client, s)
<1>1. p \in Live /\ path[p] # to /\ to \notin Paths /\ path' = [path EXCEPT ![p] = to]
  BY DEF RenameProject, Live
<1>2. path[p].client \in Slug
  BY <1>1, LivePath
<1>3. to \in [client: Slug, project: 1..Title] /\ to \in Address /\ to.client = path[p].client
  BY <1>2, AddressIs, SlugsAssumption DEF Title
<1>4. aliases' = Record(Readdress(aliases, path[p], to), {to}, path[p], to)
  BY DEF RenameProject
<1>5. /\ DOMAIN Readdress(aliases, path[p], to) = DOMAIN aliases
      /\ \A a \in DOMAIN aliases :
           Readdress(aliases, path[p], to)[a] = IF aliases[a] = path[p] THEN to ELSE aliases[a]
  BY DEF Readdress
<1>6. DOMAIN aliases' = (DOMAIN aliases \ {to}) \cup {path[p]}
  BY <1>4, <1>5 DEF Record
<1>7. \A a \in DOMAIN aliases' :
        aliases'[a] = IF a = path[p] THEN to ELSE Readdress(aliases, path[p], to)[a]
  BY <1>4 DEF Record
<1>8. \A a \in DOMAIN aliases' :
        aliases'[a] = IF a = path[p] \/ aliases[a] = path[p] THEN to ELSE aliases[a]
  BY <1>5, <1>6, <1>7
<1> HIDE DEF to
<1> QED
  BY <1>1, <1>3, <1>6, <1>8

\* The table stays a table of addresses.
LEMMA ClientTyped ==
  ASSUME SlugsTypeOK, NEW r \in Renames, NEW old \in Slug, NEW new \in Slug,
         RenameClient(r, old, new)
  PROVE  IsAliases(aliases)'
<1>1. /\ DOMAIN aliases' = {a \in DOMAIN aliases : a.client # new} \cup {At(old, Portal)}
      /\ \A a \in DOMAIN aliases' :
           aliases'[a] = IF a = At(old, Portal) THEN At(new, Portal)
                         ELSE IF aliases[a].client = old THEN [aliases[a] EXCEPT !.client = new]
                         ELSE aliases[a]
  BY ClientAliased
<1>2. DOMAIN aliases \subseteq Address /\ \A a \in DOMAIN aliases : aliases[a] \in Address
  BY DEF SlugsTypeOK, IsAliases
<1>3. At(old, Portal) \in Address /\ At(new, Portal) \in Address
  BY AddressIs, SlugsAssumption DEF Portal, Title
<1>4. \A b \in Address : [b EXCEPT !.client = new] \in Address
  BY DEF Address
<1>5. DOMAIN aliases' \subseteq Address
  BY <1>1, <1>2, <1>3
<1>6. ASSUME NEW a \in DOMAIN aliases'
      PROVE  aliases'[a] \in Address
  BY <1>1, <1>2, <1>3, <1>4
<1> QED
  BY <1>5, <1>6 DEF IsAliases
-----------------------------------------------------------------------------
(* Types.                                                                  *)

\* Every rename, creation and load keeps rows, table and copies well typed.
LEMMA SlugsTypeStep ==
  SlugsTypeOK /\ RequestsOK /\ [SlugsNext]_slugVars => SlugsTypeOK' /\ RequestsOK'
<1> SUFFICES ASSUME SlugsTypeOK, RequestsOK, [SlugsNext]_slugVars PROVE SlugsTypeOK' /\ RequestsOK'
  OBVIOUS
<1>a. \A r \in Renames, old, new \in Slug : RenameClient(r, old, new) => IsAliases(aliases)'
  BY ClientTyped
<1>b. ASSUME NEW r \in Renames, NEW p \in Projects, NEW s \in 1..Title, RenameProject(r, p, s)
      PROVE  \E to \in [client: Slug, project: 1..Title] :
               /\ p \in Live /\ to \in Address
               /\ path' = [path EXCEPT ![p] = to]
               /\ DOMAIN aliases' = (DOMAIN aliases \ {to}) \cup {path[p]}
               /\ \A a \in DOMAIN aliases' :
                     aliases'[a] = IF a = path[p] \/ aliases[a] = path[p] THEN to ELSE aliases[a]
  BY <1>b, ProjectAliased
<1> USE DEF SlugsTypeOK, RequestsOK
<1>0. IsAliases(NoAliases)
  BY DEF IsAliases, NoAliases
<1>1. ASSUME NEW p \in Projects, FulfilPortal(p)
      PROVE  SlugsTypeOK' /\ RequestsOK'
  <2>1. PICK a \in [client: Slug, project: 1..MaxBook] :
           /\ a.client \in FreeClientSlugs
           /\ clients' = clients \cup {a.client}
           /\ path' = [path EXCEPT ![p] = a] /\ mailed' = [mailed EXCEPT ![p] = a]
           /\ a \in [client: Slug, project: 1..Title] /\ a \in Address
    BY <1>1, Fulfilled
  <2>2. UNCHANGED <<aliases, cache, renaming, editing, typed, moved, crossed>>
    BY <1>1 DEF FulfilPortal
  <2>3. clients' \subseteq Slug
    BY <2>1 DEF FreeClientSlugs
  <2> QED
    BY <2>1, <2>2, <2>3
<1>2. ASSUME NEW c \in Slug, CreateClient(c)
      PROVE  SlugsTypeOK' /\ RequestsOK'
  BY <1>2 DEF CreateClient
<1>3. ASSUME NEW p \in Projects, NEW c \in Slug, NEW s \in 1..Title, CreateProject(p, At(c, s))
      PROVE  SlugsTypeOK' /\ RequestsOK'
  <2>1. At(c, s) \in [client: Slug, project: 1..Title] /\ At(c, s).client \in Slug
    BY AddressIs, SlugsAssumption DEF Title
  <2>2. typed' \in [clients: SUBSET Slug, projects: SUBSET Projects]
    BY <1>3, <2>1 DEF CreateProject
  <2> QED
    BY <1>3, <2>1, <2>2 DEF CreateProject
<1>4. ASSUME NEW r \in Renames, NEW old \in Slug, NEW new \in Slug, RenameClient(r, old, new)
      PROVE  SlugsTypeOK' /\ RequestsOK'
  <2>1. clients' \subseteq Slug
    BY <1>4 DEF RenameClient
  <2>2. path' \in [Projects -> [client: Slug, project: 1..Title] \cup {NoPath}]
    <3> SUFFICES ASSUME NEW p \in Projects
                 PROVE  (IF p \in Live /\ path[p].client = old
                         THEN [path[p] EXCEPT !.client = new] ELSE path[p])
                           \in [client: Slug, project: 1..Title] \cup {NoPath}
      BY <1>4 DEF RenameClient
    <3>1. CASE p \in Live /\ path[p].client = old
      <4>1. path[p] \in [client: Slug, project: 1..Title]
        BY <3>1, LivePath
      <4>2. [path[p] EXCEPT !.client = new] \in [client: Slug, project: 1..Title]
        BY <4>1
      <4> QED
        BY <3>1, <4>2
    <3>2. CASE ~ (p \in Live /\ path[p].client = old)
      BY <3>2
    <3> QED
      BY <3>1, <3>2
  <2>3. IsAliases(aliases)'
    BY <1>4, <1>a
  <2>4. typed' \in [clients: SUBSET Slug, projects: SUBSET Projects]
    BY <1>4 DEF RenameClient
  <2>5. /\ renaming' = [renaming EXCEPT ![r].pc = "load"] /\ crossed' \in BOOLEAN
        /\ UNCHANGED <<cache, editing, moved, mailed>>
    BY <1>4 DEF RenameClient, Commit
  <2>6. \A x \in Renames : /\ renaming'[x].pc \in {"idle", "load", "install", "done"}
                           /\ IsAliases(renaming'[x].rows)
    BY <2>5
  <2> QED
    BY <2>1, <2>2, <2>3, <2>4, <2>5, <2>6
<1>5. ASSUME NEW r \in Renames, NEW p \in Projects, NEW s \in 1..Title, RenameProject(r, p, s)
      PROVE  SlugsTypeOK' /\ RequestsOK'
  <2>1. PICK to \in [client: Slug, project: 1..Title] :
           /\ p \in Live /\ to \in Address
           /\ path' = [path EXCEPT ![p] = to]
           /\ DOMAIN aliases' = (DOMAIN aliases \ {to}) \cup {path[p]}
           /\ \A a \in DOMAIN aliases' :
                 aliases'[a] = IF a = path[p] \/ aliases[a] = path[p] THEN to ELSE aliases[a]
    BY <1>5, <1>b
  <2>2. IsAliases(aliases)'
    BY <2>1, LivePath DEF IsAliases
  <2>3. /\ renaming' = [renaming EXCEPT ![r].pc = "load"] /\ crossed' \in BOOLEAN
        /\ UNCHANGED <<clients, cache, editing, typed, moved, mailed>>
    BY <1>5 DEF RenameProject, Commit
  <2>4. \A x \in Renames : /\ renaming'[x].pc \in {"idle", "load", "install", "done"}
                           /\ IsAliases(renaming'[x].rows)
    BY <2>3
  <2> QED
    BY <2>1, <2>2, <2>3, <2>4
<1>6. ASSUME NEW r \in Renames, ReadAliases(r) \/ InstallAliases(r)
      PROVE  SlugsTypeOK' /\ RequestsOK'
  <2>1. IsAliases(cache')
    BY <1>6 DEF ReadAliases, InstallAliases
  <2>2. \A x \in Renames : /\ renaming'[x].pc \in {"idle", "load", "install", "done"}
                           /\ IsAliases(renaming'[x].rows)
    BY <1>0, <1>6 DEF ReadAliases, InstallAliases
  <2>3. UNCHANGED <<clients, path, aliases, editing, typed, moved, crossed, mailed>>
    BY <1>6 DEF ReadAliases, InstallAliases
  <2>4. renaming' = [x \in Renames |-> [pc |-> renaming'[x].pc, rows |-> renaming'[x].rows]]
    BY <1>6 DEF ReadAliases, InstallAliases
  <2> QED
    BY <2>1, <2>2, <2>3, <2>4
<1>7. ASSUME NEW e \in Edits, NEW p \in Projects, NEW c \in Slug, CheckClient(e, p, c)
      PROVE  SlugsTypeOK' /\ RequestsOK'
  <2>1. At(c, Portal) \in Address
    BY AddressIs, SlugsAssumption DEF Portal, Title
  <2>2. editing' = [editing EXCEPT ![e] = [pc |-> "create", project |-> p, row |-> At(c, Portal)]]
    BY <1>7 DEF CheckClient
  <2>3. UNCHANGED <<clients, path, aliases, cache, renaming, typed, moved, crossed, mailed>>
    BY <1>7 DEF CheckClient
  <2> QED
    BY <2>1, <2>2, <2>3
<1>8. ASSUME NEW e \in Edits, NEW p \in Projects, ReadProject(e, p)
      PROVE  SlugsTypeOK' /\ RequestsOK'
  <2>1. path[p] \in Address
    BY <1>8, LivePath DEF ReadProject, Live
  <2>2. editing' = [editing EXCEPT ![e] = [pc |-> "update", project |-> p, row |-> path[p]]]
    BY <1>8 DEF ReadProject
  <2>3. UNCHANGED <<clients, path, aliases, cache, renaming, typed, moved, crossed, mailed>>
    BY <1>8 DEF ReadProject
  <2> QED
    BY <2>1, <2>2, <2>3
<1>9. ASSUME NEW e \in Edits, NEW s \in 1..Title, PortalCreateProject(e, s)
      PROVE  SlugsTypeOK' /\ RequestsOK'
  <2> DEFINE p == editing[e].project
  <2> DEFINE a == At(editing[e].row.client, s)
  <2>1. p \in Projects /\ a \in [client: Slug, project: 1..Title]
    BY <1>9, AddressIsPair, AddressIs, SlugsAssumption DEF PortalCreateProject, Title
  <2>2. editing' = [editing EXCEPT ![e] = [NotEditing EXCEPT !.pc = "done"]]
    BY <1>9 DEF PortalCreateProject
  <2>3. \/ UNCHANGED <<path, typed, moved>>
        \/ /\ path' = [path EXCEPT ![p] = a]
           /\ typed' = [typed EXCEPT !.projects = @ \cup {p}]
           /\ moved' \in BOOLEAN
    BY <1>9 DEF PortalCreateProject
  <2>4. UNCHANGED <<clients, aliases, cache, renaming, crossed, mailed>>
    BY <1>9 DEF PortalCreateProject
  <2> HIDE DEF p, a
  <2> QED
    BY <2>1, <2>2, <2>3, <2>4 DEF NotEditing
<1>10. ASSUME NEW e \in Edits, NEW c \in Slug, NEW s \in 1..Title, UpdateProject(e, At(c, s))
       PROVE  SlugsTypeOK' /\ RequestsOK'
  <2> DEFINE p == editing[e].project
  <2>1. p \in Projects /\ At(c, s) \in [client: Slug, project: 1..Title]
    BY <1>10, AddressIs, SlugsAssumption DEF UpdateProject, Title
  <2>2. editing' = [editing EXCEPT ![e] = [NotEditing EXCEPT !.pc = "done"]]
    BY <1>10 DEF UpdateProject
  <2>3. \/ UNCHANGED <<path, typed, moved>>
        \/ /\ path' = [path EXCEPT ![p] = At(c, s)]
           /\ typed' = [typed EXCEPT !.projects = @ \cup {p}]
           /\ moved' \in BOOLEAN
    BY <1>10 DEF UpdateProject
  <2>4. UNCHANGED <<clients, aliases, cache, renaming, crossed, mailed>>
    BY <1>10 DEF UpdateProject
  <2> HIDE DEF p
  <2> QED
    BY <2>1, <2>2, <2>3, <2>4 DEF NotEditing
<1>11. CASE RestartSlugs
  <2>1. /\ cache' = aliases
        /\ renaming' = [r \in Renames |-> IF Loading(r) THEN [pc |-> "done", rows |-> NoAliases]
                                          ELSE renaming[r]]
        /\ editing' = [e \in Edits |-> IF editing[e].pc \in {"create", "update"}
                                       THEN [NotEditing EXCEPT !.pc = "done"] ELSE editing[e]]
        /\ UNCHANGED <<clients, path, aliases, typed, moved, crossed, mailed>>
    BY <1>11 DEF RestartSlugs
  <2>2. \A x \in Renames : /\ renaming'[x].pc \in {"idle", "load", "install", "done"}
                           /\ IsAliases(renaming'[x].rows)
    BY <1>0, <2>1
  <2> QED
    BY <2>1, <2>2 DEF NotEditing
<1>12. CASE UNCHANGED slugVars
  BY <1>12 DEF slugVars, Live
<1> QED
  BY <1>1, <1>2, <1>3, <1>4, <1>5, <1>6, <1>7, <1>8, <1>9, <1>10, <1>11, <1>12 DEF SlugsNext
-----------------------------------------------------------------------------
(* The table.                                                              *)

\* A client's rename keeps the three facts: the new name is freed, and whatever
\* led to the old one now leads to the new.
LEMMA ClientKeepsTable ==
  ASSUME SlugsTypeOK, TableInv, NEW r \in Renames, NEW old \in Slug, NEW new \in Slug,
         RenameClient(r, old, new)
  PROVE  TableInv'
<1>1. /\ old # new
      /\ DOMAIN aliases' = {a \in DOMAIN aliases : a.client # new} \cup {At(old, Portal)}
      /\ \A a \in DOMAIN aliases' :
           aliases'[a] = IF a = At(old, Portal) THEN At(new, Portal)
                         ELSE IF aliases[a].client = old THEN [aliases[a] EXCEPT !.client = new]
                         ELSE aliases[a]
  BY ClientAliased
<1>2. /\ DOMAIN aliases \subseteq Address
      /\ \A a \in DOMAIN aliases : aliases[a] \in Address
  BY DEF SlugsTypeOK, IsAliases
<1>3. /\ At(old, Portal) \in Address /\ At(old, Portal).client = old /\ At(old, Portal).project = Portal
      /\ At(new, Portal) \in Address /\ At(new, Portal).client = new /\ At(new, Portal).project = Portal
  BY AddressIs, SlugsAssumption DEF Portal, Title
<1>4. \A b \in Address : /\ [b EXCEPT !.client = new].client = new
                         /\ [b EXCEPT !.client = new].project = b.project
  BY DEF Address
<1>5. ASSUME NEW a \in DOMAIN aliases'
      PROVE  \/ a = At(old, Portal) /\ aliases'[a] = At(new, Portal)
             \/ /\ a # At(old, Portal) /\ a \in DOMAIN aliases /\ a.client # new
                /\ aliases[a].client = old
                /\ aliases'[a].client = new /\ aliases'[a].project = aliases[a].project
             \/ /\ a # At(old, Portal) /\ a \in DOMAIN aliases /\ a.client # new
                /\ aliases[a].client # old /\ aliases'[a] = aliases[a]
  BY <1>1, <1>2, <1>4, ZenonT(30)
<1>6. NoTargetAliased'
  <2> SUFFICES ASSUME NEW a \in DOMAIN aliases' PROVE aliases'[a] \notin DOMAIN aliases'
    BY DEF NoTargetAliased
  <2>1. \A b \in DOMAIN aliases' : b.client # new
    BY <1>1, <1>3
  <2>2. CASE aliases'[a].client = new
    BY <2>1, <2>2
  <2>3. CASE a # At(old, Portal) /\ a \in DOMAIN aliases /\ aliases[a].client # old /\ aliases'[a] = aliases[a]
    BY <1>1, <1>3, <2>3 DEF TableInv, NoTargetAliased
  <2> QED
    BY <1>3, <1>5, <2>2, <2>3
<1>7. ClientsToClients'
  BY <1>3, <1>5 DEF TableInv, ClientsToClients
<1>8. LeavesByClient'
  <2> SUFFICES ASSUME NEW a \in DOMAIN aliases', aliases'[a].client # a.client
               PROVE  At(a.client, Portal) \in DOMAIN aliases'
    BY DEF LeavesByClient
  <2>1. CASE a.client = old
    BY <1>1, <2>1
  <2>2. CASE a.client # old
    <3>1. a \in DOMAIN aliases /\ a.client # new /\ aliases[a].client # a.client
      BY <1>3, <1>5, <2>2
    <3>2. At(a.client, Portal) \in DOMAIN aliases
      BY <3>1 DEF TableInv, LeavesByClient
    <3>3. At(a.client, Portal).client = a.client
      BY DEF At
    <3> QED
      BY <1>1, <3>1, <3>2, <3>3
  <2> QED
    BY <2>1, <2>2
<1> QED
  BY <1>6, <1>7, <1>8 DEF TableInv

\* So does a project's.
LEMMA ProjectKeepsTable ==
  ASSUME SlugsTypeOK, TableInv, NEW r \in Renames, NEW p \in Projects, NEW s \in 1..Title,
         RenameProject(r, p, s)
  PROVE  TableInv'
<1>1. PICK to \in [client: Slug, project: 1..Title] :
        /\ p \in Live /\ path[p] # to
        /\ to \in Address /\ to.client = path[p].client
        /\ DOMAIN aliases' = (DOMAIN aliases \ {to}) \cup {path[p]}
        /\ \A a \in DOMAIN aliases' :
             aliases'[a] = IF a = path[p] \/ aliases[a] = path[p] THEN to ELSE aliases[a]
  BY ProjectAliased
<1>2. to.project # Portal /\ path[p].project # Portal
  BY <1>1, LivePath, SlugsAssumption DEF Portal, Title
<1>3. ASSUME NEW a \in DOMAIN aliases'
      PROVE  \/ a = path[p] /\ aliases'[a] = to
             \/ a # path[p] /\ a # to /\ a \in DOMAIN aliases /\ aliases[a] = path[p] /\ aliases'[a] = to
             \/ a # path[p] /\ a # to /\ a \in DOMAIN aliases /\ aliases[a] # path[p]
                   /\ aliases'[a] = aliases[a]
  BY <1>1
<1>4. NoTargetAliased'
  BY <1>1, <1>3 DEF TableInv, NoTargetAliased
<1>5. ClientsToClients'
  BY <1>2, <1>3 DEF TableInv, ClientsToClients
<1>6. LeavesByClient'
  <2> SUFFICES ASSUME NEW a \in DOMAIN aliases', aliases'[a].client # a.client
               PROVE  At(a.client, Portal) \in DOMAIN aliases'
    BY DEF LeavesByClient
  <2>1. a \in DOMAIN aliases /\ aliases[a].client # a.client
    BY <1>1, <1>3
  <2>2. At(a.client, Portal) \in DOMAIN aliases
    BY <2>1 DEF TableInv, LeavesByClient
  <2>3. At(a.client, Portal).project = Portal
    BY DEF At
  <2> QED
    BY <1>1, <1>2, <2>2, <2>3
<1> QED
  BY <1>4, <1>5, <1>6 DEF TableInv

\* Nothing but a rename writes the table.
LEMMA TableStep == SlugsTypeOK /\ TableInv /\ [SlugsNext]_slugVars => TableInv'
<1> SUFFICES ASSUME SlugsTypeOK, TableInv, [SlugsNext]_slugVars PROVE TableInv'
  OBVIOUS
<1>1. CASE \E r \in Renames, old, new \in Slug : RenameClient(r, old, new)
  BY <1>1, ClientKeepsTable
<1>2. CASE \E r \in Renames, p \in Projects, s \in 1..Title : RenameProject(r, p, s)
  BY <1>2, ProjectKeepsTable
<1>3. CASE aliases' = aliases
  BY <1>3 DEF TableInv, NoTargetAliased, ClientsToClients, LeavesByClient
<1>4. CASE \/ \E p \in Projects : FulfilPortal(p)
           \/ \E c \in Slug : CreateClient(c)
           \/ \E p \in Projects, c \in Slug, s \in 1..Title : CreateProject(p, At(c, s))
           \/ \E r \in Renames : ReadAliases(r) \/ InstallAliases(r)
           \/ \E e \in Edits : \/ \E p \in Projects, c \in Slug : CheckClient(e, p, c)
                               \/ \E s \in 1..Title : PortalCreateProject(e, s)
                               \/ \E p \in Projects : ReadProject(e, p)
                               \/ \E c \in Slug, s \in 1..Title : UpdateProject(e, At(c, s))
           \/ RestartSlugs
           \/ UNCHANGED slugVars
  <2>1. aliases' = aliases
    BY <1>4 DEF FulfilPortal, CreateClient, CreateProject, ReadAliases, InstallAliases,
        CheckClient, PortalCreateProject, ReadProject, UpdateProject, RestartSlugs, slugVars
  <2> QED
    BY <1>3, <2>1
<1> QED
  BY <1>1, <1>2, <1>4 DEF SlugsNext

\* Three redirects reach an address that is not redirected: an alias of the
\* address itself, one of the client it led to, and one of what that led to.
LEMMA ThreeHopsEnd == SlugsTypeOK /\ TableInv => RedirectsEnd
<1> SUFFICES ASSUME SlugsTypeOK, TableInv, NEW a \in Address
             PROVE  ~ Aliased(aliases, Arrival(aliases, a))
  BY DEF RedirectsEnd
<1> DEFINE hop(x) == Hop(aliases, x)
<1> DEFINE HasClient(x) == At(x.client, Portal) \in DOMAIN aliases
<1>1. \A x \in DOMAIN aliases : /\ x \in Address /\ aliases[x] \in Address
                                /\ aliases[x] \notin DOMAIN aliases
                                /\ aliases[x].client = x.client \/ HasClient(x)
                                /\ x.project = Portal => aliases[x].project = Portal
  BY DEF SlugsTypeOK, IsAliases, TableInv, NoTargetAliased, LeavesByClient, ClientsToClients
<1>2. ASSUME NEW x \in Address, x \in DOMAIN aliases
      PROVE  hop(x) \in Address /\ hop(x) \notin DOMAIN aliases
               /\ (hop(x).client = x.client \/ HasClient(x))
  BY <1>1, <1>2 DEF Hop, Aliased, Resolve
<1>3. ASSUME NEW x \in Address, x \notin DOMAIN aliases, HasClient(x)
      PROVE  hop(x) \in Address /\ ~ HasClient(hop(x))
  <2> DEFINE k == At(x.client, Portal)
  <2>1. k \in DOMAIN aliases /\ k.project = Portal
    BY <1>3 DEF At
  <2>2. aliases[k] \in Address /\ aliases[k] \notin DOMAIN aliases /\ aliases[k].project = Portal
    BY <1>1, <2>1
  <2>3. hop(x) = At(aliases[k].client, x.project)
    BY <1>3, <2>1 DEF Hop, Aliased, Resolve
  <2>4. aliases[k] = At(aliases[k].client, Portal) /\ aliases[k].client \in Slug
    BY <2>2, AddressIsPair
  <2>5. x.project \in 0..Title
    BY AddressIsPair
  <2>6. hop(x) \in Address /\ hop(x).client = aliases[k].client
    BY <2>3, <2>4, <2>5, AddressIs
  <2> QED
    BY <2>2, <2>4, <2>6
<1>4. ASSUME NEW x \in Address, ~ Aliased(aliases, x)
      PROVE  hop(x) = x
  BY <1>4 DEF Hop
<1>5. ASSUME NEW x \in Address, ~ HasClient(x)
      PROVE  hop(x) \in Address /\ ~ Aliased(aliases, hop(x))
  <2>1. CASE x \in DOMAIN aliases
    BY <1>2, <1>5, <2>1 DEF Aliased
  <2>2. CASE x \notin DOMAIN aliases
    BY <1>5, <2>2 DEF Hop, Aliased
  <2> QED
    BY <2>1, <2>2
<1>6. ASSUME NEW x \in Address, x \notin DOMAIN aliases
      PROVE  /\ hop(x) \in Address
             /\ ~ Aliased(aliases, hop(x)) \/ ~ HasClient(hop(x))
  <2>1. CASE HasClient(x)
    BY <1>3, <1>6, <2>1
  <2>2. CASE ~ HasClient(x)
    BY <1>5, <2>2
  <2> QED
    BY <2>1, <2>2
<1>7. Arrival(aliases, a) = hop(hop(hop(a)))
  BY DEF Arrival
<1> HIDE DEF hop, HasClient
<1>8. CASE a \in DOMAIN aliases
  <2>1. hop(a) \in Address /\ hop(a) \notin DOMAIN aliases
    BY <1>2, <1>8
  <2>2. hop(hop(a)) \in Address /\ (~ Aliased(aliases, hop(hop(a))) \/ ~ HasClient(hop(hop(a))))
    BY <1>6, <2>1
  <2> QED
    BY <1>4, <1>5, <1>7, <2>2
<1>9. CASE a \notin DOMAIN aliases
  <2>1. hop(a) \in Address /\ (~ Aliased(aliases, hop(a)) \/ ~ HasClient(hop(a)))
    BY <1>6, <1>9
  <2>2. hop(hop(a)) \in Address /\ ~ Aliased(aliases, hop(hop(a)))
    BY <1>4, <1>5, <2>1
  <2> QED
    BY <1>4, <1>7, <2>2
<1> QED
  BY <1>8, <1>9
-----------------------------------------------------------------------------
(* Where the projects live.                                                *)

\* What a step that is not a rename does: the table stays, clients and names
\* typed are only added, and at most one project gets an address, one nobody
\* else has.  It was created just then, under a name no alias is of unless a
\* person typed something, or a PUT moved it.
PlainStep ==
  /\ aliases' = aliases /\ clients \subseteq clients'
  /\ typed.clients \subseteq typed'.clients /\ typed.projects \subseteq typed'.projects
  /\ moved => moved'
  /\ \/ path' = path
     \/ \E p \in Projects, a \in [client: Slug, project: 1..Title] :
          /\ path' = [path EXCEPT ![p] = a]
          /\ \A q \in Live : path[q] = a => q = p
          /\ moved' \/ path[p] = a \/ (path[p] = NoPath /\ a.client \in clients')
          /\ p \in typed'.projects \/ a.client \in FreeClientSlugs

\* fulfillPass is such a step: the number is above all those of the client.
LEMMA FulfilIsPlain ==
  ASSUME SlugsTypeOK, NEW p \in Projects, FulfilPortal(p)
  PROVE  PlainStep
<1>1. PICK a \in [client: Slug, project: 1..MaxBook] :
        /\ a.client \in FreeClientSlugs
        /\ a.project \notin BookNumbers(a.client)
        /\ clients' = clients \cup {a.client}
        /\ path[p] = NoPath
        /\ path' = [path EXCEPT ![p] = a]
        /\ a \in [client: Slug, project: 1..Title]
  BY Fulfilled
<1>2. UNCHANGED <<aliases, typed, moved>>
  BY DEF FulfilPortal
<1>3. ASSUME NEW q \in Live, path[q] = a
      PROVE  FALSE
  <2>1. path[q].project \in BookNumbers(a.client)
    BY <1>1, <1>3 DEF BookNumbers
  <2> QED
    BY <1>1, <1>3, <2>1
<1> QED
  BY <1>1, <1>2, <1>3 DEF PlainStep

\* So is every other step that is not a rename.
LEMMA OthersArePlain ==
  ASSUME SlugsTypeOK, RequestsOK, PathsApart, [SlugsNext]_slugVars,
         ~ \E r \in Renames, old, new \in Slug : RenameClient(r, old, new),
         ~ \E r \in Renames, p \in Projects, s \in 1..Title : RenameProject(r, p, s)
  PROVE  PlainStep
<1>0. typed \in [clients: SUBSET Slug, projects: SUBSET Projects]
  BY DEF SlugsTypeOK
<1>1. ASSUME NEW p \in Projects, FulfilPortal(p)
      PROVE  PlainStep
  BY <1>1, FulfilIsPlain
<1>2. ASSUME NEW c \in Slug, CreateClient(c)
      PROVE  PlainStep
  BY <1>0, <1>2 DEF CreateClient, PlainStep
<1>3. ASSUME NEW p \in Projects, NEW c \in Slug, NEW s \in 1..Title, CreateProject(p, At(c, s))
      PROVE  PlainStep
  <2> DEFINE a == At(c, s)
  <2>1. a \in [client: Slug, project: 1..Title]
    BY AddressIs, SlugsAssumption DEF Title
  <2>2. /\ path[p] = NoPath /\ a \notin Paths /\ clients' = clients \cup {a.client}
        /\ path' = [path EXCEPT ![p] = a]
        /\ typed' = [clients |-> typed.clients \cup ({a.client} \ clients),
                     projects |-> typed.projects \cup {p}]
        /\ UNCHANGED <<aliases, moved>>
    BY <1>3 DEF CreateProject
  <2> HIDE DEF a
  <2>3. \A q \in Live : path[q] = a => q = p
    BY <2>2 DEF Paths
  <2> QED
    BY <2>1, <2>2, <2>3 DEF PlainStep
<1>4. ASSUME NEW e \in Edits, NEW s \in 1..Title, PortalCreateProject(e, s)
      PROVE  PlainStep
  <2> DEFINE p == editing[e].project
  <2> DEFINE a == At(editing[e].row.client, s)
  <2>1. p \in Projects /\ a \in [client: Slug, project: 1..Title]
    BY <1>4, AddressIsPair, AddressIs, SlugsAssumption DEF PortalCreateProject, RequestsOK, Title
  <2>2. /\ UNCHANGED <<clients, aliases>>
        /\ \/ UNCHANGED <<path, typed, moved>>
           \/ /\ a \notin Paths /\ path[p] = NoPath
              /\ path' = [path EXCEPT ![p] = a]
              /\ typed' = [typed EXCEPT !.projects = @ \cup {p}]
              /\ moved' = (moved \/ a.client \notin clients)
    BY <1>4 DEF PortalCreateProject
  <2> HIDE DEF p, a
  <2>3. a \notin Paths => \A q \in Live : path[q] # a
    BY DEF Paths
  <2>4. CASE UNCHANGED <<path, typed, moved>>
    BY <2>2, <2>4 DEF PlainStep
  <2>5. CASE /\ a \notin Paths /\ path[p] = NoPath
             /\ path' = [path EXCEPT ![p] = a]
             /\ typed' = [typed EXCEPT !.projects = @ \cup {p}]
             /\ moved' = (moved \/ a.client \notin clients)
    <3>1. typed'.clients = typed.clients /\ typed'.projects = typed.projects \cup {p}
      BY <1>0, <2>5
    <3>2. moved' \/ a.client \in clients'
      BY <2>2, <2>5
    <3>3. moved => moved'
      BY <2>5
    <3> QED
      BY <2>1, <2>2, <2>3, <2>5, <3>1, <3>2, <3>3 DEF PlainStep
  <2> QED
    BY <2>2, <2>4, <2>5
<1>5. ASSUME NEW e \in Edits, NEW c \in Slug, NEW s \in 1..Title, UpdateProject(e, At(c, s))
      PROVE  PlainStep
  <2> DEFINE p == editing[e].project
  <2> DEFINE a == At(c, s)
  <2>1. p \in Projects /\ a \in [client: Slug, project: 1..Title]
    BY <1>5, AddressIs, SlugsAssumption DEF UpdateProject, RequestsOK, Title
  <2>2. /\ UNCHANGED <<clients, aliases>>
        /\ \/ UNCHANGED <<path, typed, moved>>
           \/ /\ a \notin Paths \ {path[p]}
              /\ path' = [path EXCEPT ![p] = a]
              /\ typed' = [typed EXCEPT !.projects = @ \cup {p}]
              /\ moved' = (moved \/ a # path[p])
    BY <1>5 DEF UpdateProject
  <2> HIDE DEF p, a
  <2>3. a \notin Paths \ {path[p]} => \A q \in Live : path[q] = a => q = p
    BY <2>1 DEF Paths, Live, PathsApart
  <2>4. CASE UNCHANGED <<path, typed, moved>>
    BY <2>2, <2>4 DEF PlainStep
  <2>5. CASE /\ a \notin Paths \ {path[p]}
             /\ path' = [path EXCEPT ![p] = a]
             /\ typed' = [typed EXCEPT !.projects = @ \cup {p}]
             /\ moved' = (moved \/ a # path[p])
    <3>1. typed'.clients = typed.clients /\ typed'.projects = typed.projects \cup {p}
      BY <1>0, <2>5
    <3>2. (moved' \/ path[p] = a) /\ (moved => moved')
      BY <2>5
    <3> QED
      BY <2>1, <2>2, <2>3, <2>5, <3>1, <3>2 DEF PlainStep
  <2> QED
    BY <2>2, <2>4, <2>5
<1>6. CASE \/ \E r \in Renames : ReadAliases(r) \/ InstallAliases(r)
           \/ \E e \in Edits : \/ \E p \in Projects, c \in Slug : CheckClient(e, p, c)
                               \/ \E p \in Projects : ReadProject(e, p)
           \/ RestartSlugs
           \/ UNCHANGED slugVars
  <2>1. UNCHANGED <<clients, path, aliases, typed, moved>>
    BY <1>6 DEF ReadAliases, InstallAliases, CheckClient, ReadProject, RestartSlugs, slugVars
  <2> QED
    BY <2>1 DEF PlainStep
<1> QED
  BY <1>1, <1>2, <1>3, <1>4, <1>5, <1>6 DEF SlugsNext

\* What the invariant says of the projects' addresses.
PathsInv == PathsApart /\ AliasTargetsLive /\ ClientsOfPaths /\ NotShadowed

\* A step that is not a rename keeps it.
LEMMA PlainKeepsPaths ==
  ASSUME SlugsTypeOK, SlugsTypeOK', PathsInv, PlainStep
  PROVE  PathsInv'
<1>1. CASE path' = path
  <2>1. UNCHANGED <<Live, Paths>>
    BY <1>1 DEF Live, Paths
  <2> QED
    BY <1>1, <2>1 DEF PlainStep, PathsInv, PathsApart, AliasTargetsLive, ClientsOfPaths,
        NotShadowed, Aliased
<1>2. ASSUME NEW p \in Projects, NEW a \in [client: Slug, project: 1..Title],
             path' = [path EXCEPT ![p] = a],
             \A q \in Live : path[q] = a => q = p,
             moved' \/ path[p] = a \/ (path[p] = NoPath /\ a.client \in clients'),
             p \in typed'.projects \/ a.client \in FreeClientSlugs
      PROVE  PathsInv'
  <2>0. a # NoPath
    BY SlugsAssumption DEF NoPath, At, Slug
  <2>1. /\ path'[p] = a /\ Live' = Live \cup {p}
        /\ \A q \in Projects : q # p => path'[q] = path[q]
    BY <1>2, <2>0 DEF Live, SlugsTypeOK
  <2>2. PathsApart'
    BY <1>2, <2>1 DEF PathsInv, PathsApart, Live
  <2>3. ASSUME ~ moved'
        PROVE  Paths \subseteq Paths'
    BY <1>2, <2>0, <2>1, <2>3 DEF Paths, Live
  <2>4. AliasTargetsLive'
    BY <2>3 DEF PlainStep, PathsInv, AliasTargetsLive
  <2>5. ClientsOfPaths'
    BY <1>2, <2>0, <2>1 DEF PlainStep, PathsInv, ClientsOfPaths, Live
  <2>6. ASSUME NEW q \in Live', q \notin typed'.projects, path'[q].client \notin typed'.clients
        PROVE  ~ Aliased(aliases', path'[q])
    <3>1. CASE q # p
      BY <2>1, <2>6, <3>1 DEF PlainStep, PathsInv, NotShadowed, Live
    <3>2. CASE q = p
      <4>1. a.client \in FreeClientSlugs
        BY <1>2, <2>6, <3>2
      <4>2. \A b \in DOMAIN aliases : b.client # a.client
        BY <4>1 DEF FreeClientSlugs
      <4>3. At(a.client, Portal).client = a.client
        BY DEF At
      <4> QED
        BY <2>1, <3>2, <4>2, <4>3 DEF PlainStep, Aliased
    <3> QED
      BY <3>1, <3>2
  <2>7. NotShadowed'
    BY <2>6 DEF NotShadowed
  <2> QED
    BY <2>2, <2>4, <2>5, <2>7 DEF PathsInv
<1> QED
  BY <1>1, <1>2 DEF PlainStep

\* A client's rename takes all its projects along, and the targets of aliases
\* with them.
LEMMA ClientKeepsPaths ==
  ASSUME SlugsTypeOK, PathsInv, NEW r \in Renames, NEW old \in Slug, NEW new \in Slug,
         RenameClient(r, old, new)
  PROVE  PathsInv'
<1>1. /\ old # new
      /\ DOMAIN aliases' = {a \in DOMAIN aliases : a.client # new} \cup {At(old, Portal)}
      /\ \A a \in DOMAIN aliases' :
           aliases'[a] = IF a = At(old, Portal) THEN At(new, Portal)
                         ELSE IF aliases[a].client = old THEN [aliases[a] EXCEPT !.client = new]
                         ELSE aliases[a]
  BY ClientAliased
<1>2. \A c \in Slug : At(c, Portal) \in Address /\ At(c, Portal).client = c /\ At(c, Portal).project = Portal
  BY AddressIs, SlugsAssumption DEF Portal, Title
<1>3. ASSUME NEW b \in Address
      PROVE  /\ [b EXCEPT !.client = new] = At(new, b.project)
             /\ At(new, b.project).client = new /\ At(new, b.project).project = b.project
             /\ At(new, b.project) # NoPath
  BY SlugsAssumption DEF Address, At, NoPath, Slug
<1>4. ASSUME NEW p \in Live
      PROVE  /\ path[p] \in Address /\ p \in Live'
             /\ path'[p] = IF path[p].client = old THEN At(new, path[p].project) ELSE path[p]
             /\ path'[p].client = IF path[p].client = old THEN new ELSE path[p].client
             /\ path'[p].project = path[p].project
  <2>1. path[p] \in Address /\ p \in Projects /\ path[p] # NoPath
    BY LivePath DEF Live
  <2>2. path'[p] = IF path[p].client = old THEN [path[p] EXCEPT !.client = new] ELSE path[p]
    BY <2>1 DEF RenameClient
  <2>3. path'[p] = IF path[p].client = old THEN At(new, path[p].project) ELSE path[p]
    BY <1>3, <2>1, <2>2
  <2>4. path'[p].client = IF path[p].client = old THEN new ELSE path[p].client
    BY <1>3, <2>1, <2>3
  <2>5. path'[p].project = path[p].project
    BY <1>3, <2>1, <2>3
  <2>6. p \in Live'
    BY <1>3, <2>1, <2>3 DEF Live
  <2> QED
    BY <2>1, <2>3, <2>4, <2>5, <2>6
<1>5. Live' = Live
  <2>1. ASSUME NEW p \in Projects, p \notin Live
        PROVE  p \notin Live'
    BY <2>1 DEF RenameClient, Live
  <2> QED
    BY <1>4, <2>1 DEF Live
<1>6. PathsApart'
  <2> SUFFICES ASSUME NEW p \in Live, NEW q \in Live, path'[p] = path'[q] PROVE p = q
    BY <1>5 DEF PathsApart
  <2>1. \A x, y \in Live : ~ (/\ path[x].client = old /\ path[y].client = new
                              /\ path[x].project = path[y].project)
    BY DEF RenameClient
  <2>2. path[p].project = path[q].project
    BY <1>4
  <2>3. (path[p].client = old) <=> (path[q].client = old)
    BY <1>4, <2>1, <2>2
  <2>4. path[p].client = path[q].client
    BY <1>4, <2>3
  <2>5. path[p] = path[q]
    BY <1>4, <2>2, <2>4, AddressIsPair, Zenon
  <2> QED
    BY <2>5 DEF PathsInv, PathsApart
<1>7. clients' = (clients \ {old}) \cup {new} /\ moved' = moved /\ typed'.projects = typed.projects
        /\ typed'.clients = typed.clients \ {old, new}
  BY DEF RenameClient, SlugsTypeOK
<1>8. ClientsOfPaths'
  BY <1>4, <1>5, <1>7 DEF PathsInv, ClientsOfPaths
<1>9. AliasTargetsLive'
  <2> SUFFICES ASSUME ~ moved, NEW a \in DOMAIN aliases'
               PROVE  /\ aliases'[a].client \in clients'
                      /\ aliases'[a].project # Portal => aliases'[a] \in Paths'
    BY <1>7 DEF AliasTargetsLive
  <2>1. CASE a = At(old, Portal)
    BY <1>1, <1>2, <1>7, <2>1
  <2>2. CASE a # At(old, Portal)
    <3>1. a \in DOMAIN aliases /\ aliases[a] \in Address
      BY <1>1, <2>2 DEF SlugsTypeOK, IsAliases
    <3>2. /\ aliases[a].client \in clients
          /\ aliases[a].project # Portal => \E p \in Live : path[p] = aliases[a]
      BY <3>1 DEF PathsInv, AliasTargetsLive, Paths
    <3>3. aliases'[a] = IF aliases[a].client = old THEN At(new, aliases[a].project) ELSE aliases[a]
      BY <1>1, <1>3, <2>2, <3>1
    <3>4. aliases'[a].client \in clients' /\ aliases'[a].project = aliases[a].project
      BY <1>3, <1>7, <3>1, <3>2, <3>3
    <3>5. ASSUME NEW p \in Live, path[p] = aliases[a]
          PROVE  aliases'[a] \in Paths'
      BY <1>4, <3>3, <3>5 DEF Paths
    <3> QED
      BY <3>2, <3>4, <3>5
  <2> QED
    BY <2>1, <2>2
<1>10. NotShadowed'
  <2> SUFFICES ASSUME NEW p \in Live, p \notin typed.projects, path'[p].client \notin typed'.clients
               PROVE  ~ Aliased(aliases', path'[p])
    BY <1>5, <1>7 DEF NotShadowed
  <2> DEFINE c == path'[p].client
  <2>1. c \in Slug /\ c # old /\ At(c, Portal).client = c
    BY <1>1, <1>2, <1>4, LivePath
  <2>2. CASE c = new
    BY <1>1, <1>2, <2>1, <2>2 DEF Aliased
  <2>3. CASE c # new
    <3>1. path'[p] = path[p] /\ path[p].client \notin typed.clients
      BY <1>4, <1>7, <2>1, <2>3
    <3>2. ~ Aliased(aliases, path[p])
      BY <3>1 DEF PathsInv, NotShadowed
    <3> QED
      BY <1>1, <1>2, <2>1, <3>1, <3>2 DEF Aliased
  <2> QED
    BY <2>2, <2>3
<1> QED
  BY <1>6, <1>8, <1>9, <1>10 DEF PathsInv

\* A project's rename leads the old address, and what led to it, to the new
\* one, which nobody had.
LEMMA ProjectKeepsPaths ==
  ASSUME SlugsTypeOK, PathsInv, NEW r \in Renames, NEW p \in Projects, NEW s \in 1..Title,
         RenameProject(r, p, s)
  PROVE  PathsInv'
<1>1. PICK to \in [client: Slug, project: 1..Title] :
        /\ p \in Live /\ path[p] # to /\ to \notin Paths
        /\ to \in Address /\ to.client = path[p].client
        /\ path' = [path EXCEPT ![p] = to]
        /\ DOMAIN aliases' = (DOMAIN aliases \ {to}) \cup {path[p]}
        /\ \A a \in DOMAIN aliases' :
             aliases'[a] = IF a = path[p] \/ aliases[a] = path[p] THEN to ELSE aliases[a]
  BY ProjectAliased
<1>2. UNCHANGED <<clients, typed, moved>>
  BY DEF RenameProject
<1>3. to # NoPath
  BY SlugsAssumption DEF NoPath, At, Slug
<1>4. /\ Live' = Live /\ path'[p] = to
      /\ \A q \in Live : q # p => path'[q] = path[q]
  BY <1>1, <1>3 DEF Live, SlugsTypeOK
<1>5. PathsApart'
  BY <1>1, <1>4 DEF PathsInv, PathsApart, Paths
<1>6. ClientsOfPaths'
  BY <1>1, <1>2, <1>4 DEF PathsInv, ClientsOfPaths
<1>7. AliasTargetsLive'
  <2> SUFFICES ASSUME ~ moved, NEW a \in DOMAIN aliases'
               PROVE  /\ aliases'[a].client \in clients
                      /\ aliases'[a].project # Portal => aliases'[a] \in Paths'
    BY <1>2 DEF AliasTargetsLive
  <2>1. CASE aliases'[a] = to
    BY <1>1, <1>4, <2>1 DEF PathsInv, ClientsOfPaths, Paths
  <2>2. CASE aliases'[a] # to
    <3>1. a \in DOMAIN aliases /\ aliases'[a] = aliases[a] /\ aliases[a] # path[p]
      BY <1>1, <2>2
    <3>2. /\ aliases[a].client \in clients
          /\ aliases[a].project # Portal => \E q \in Live : path[q] = aliases[a]
      BY <3>1 DEF PathsInv, AliasTargetsLive, Paths
    <3> QED
      BY <1>4, <3>1, <3>2 DEF Paths
  <2> QED
    BY <2>1, <2>2
<1>8. NotShadowed'
  <2> SUFFICES ASSUME NEW q \in Live, q \notin typed.projects, path'[q].client \notin typed.clients
               PROVE  ~ Aliased(aliases', path'[q])
    BY <1>2, <1>4 DEF NotShadowed
  <2>1. path'[q].client = path[q].client
    BY <1>1, <1>4
  <2>2. ~ Aliased(aliases, path[q])
    BY <2>1 DEF PathsInv, NotShadowed
  <2>3. At(path[q].client, Portal) \notin DOMAIN aliases'
    <3>1. At(path[q].client, Portal).project = Portal /\ path[p].project # Portal
      BY <1>1, LivePath DEF At, Portal
    <3> QED
      BY <1>1, <2>2, <3>1 DEF Aliased
  <2>4. path'[q] \notin DOMAIN aliases'
    BY <1>1, <1>4, <2>2 DEF Aliased, PathsInv, PathsApart
  <2> QED
    BY <2>1, <2>3, <2>4 DEF Aliased
<1> QED
  BY <1>5, <1>6, <1>7, <1>8 DEF PathsInv

\* Every step keeps what is said of the projects' addresses.
LEMMA PathsStep ==
  SlugsTypeOK /\ RequestsOK /\ PathsInv /\ SlugsTypeOK' /\ [SlugsNext]_slugVars => PathsInv'
<1> SUFFICES ASSUME SlugsTypeOK, RequestsOK, PathsInv, SlugsTypeOK', [SlugsNext]_slugVars
             PROVE  PathsInv'
  OBVIOUS
<1>1. CASE \E r \in Renames, old, new \in Slug : RenameClient(r, old, new)
  BY <1>1, ClientKeepsPaths
<1>2. CASE \E r \in Renames, p \in Projects, s \in 1..Title : RenameProject(r, p, s)
  BY <1>2, ProjectKeepsPaths
<1>3. CASE /\ ~ \E r \in Renames, old, new \in Slug : RenameClient(r, old, new)
           /\ ~ \E r \in Renames, p \in Projects, s \in 1..Title : RenameProject(r, p, s)
  <2>1. PathsApart
    BY DEF PathsInv
  <2>2. PlainStep
    BY <1>3, <2>1, OthersArePlain
  <2> QED
    BY <2>2, PlainKeepsPaths
<1> QED
  BY <1>1, <1>2, <1>3
-----------------------------------------------------------------------------
(* The router's copy.                                                      *)

\* Loads of renames that do not cross bring the router what the table says.
LEMMA LoadsStep ==
  RequestsOK /\ LoadsOK /\ RouterFollows /\ [SlugsNext]_slugVars => LoadsOK' /\ RouterFollows'
<1> SUFFICES ASSUME RequestsOK, LoadsOK, RouterFollows, [SlugsNext]_slugVars
             PROVE  LoadsOK' /\ RouterFollows'
  OBVIOUS
<1>0. renaming = [x \in Renames |-> [pc |-> renaming[x].pc, rows |-> renaming[x].rows]]
  BY DEF RequestsOK
<1>1. ASSUME NEW r \in Renames, Commit(r)
      PROVE  LoadsOK' /\ RouterFollows'
  <2>1. Loading(r)' /\ \A x \in Renames : x # r => (Loading(x)' <=> Loading(x))
    BY <1>0, <1>1 DEF Commit, Loading
  <2>2. ~ crossed' => \A x \in Renames : ~ Loading(x)
    BY <1>1 DEF Commit
  <2>3. \A x \in Renames : Loading(x)' /\ ~ crossed' => x = r
    BY <2>1, <2>2
  <2>4. renaming'[r].pc = "load"
    BY <1>0, <1>1 DEF Commit
  <2>5. \A x \in Renames : renaming'[x].pc = "install" => Loading(x)'
    BY DEF Loading
  <2>6. LoadsOK'
    BY <2>3, <2>4, <2>5 DEF LoadsOK
  <2>7. RouterFollows'
    BY <2>1 DEF RouterFollows
  <2> QED
    BY <2>6, <2>7
<1>2. ASSUME NEW r \in Renames, ReadAliases(r)
      PROVE  LoadsOK' /\ RouterFollows'
  <2>1. /\ renaming[r].pc = "load"
        /\ renaming' = [renaming EXCEPT ![r] = [pc |-> "install", rows |-> aliases]]
        /\ UNCHANGED <<aliases, cache, crossed>>
    BY <1>2 DEF ReadAliases
  <2>2. Loading(r)' /\ \A x \in Renames : Loading(x)' <=> Loading(x)
    BY <1>0, <2>1 DEF Loading
  <2>3. \A x \in Renames : renaming'[x].pc = "install" =>
           renaming'[x].rows = IF x = r THEN aliases ELSE renaming[x].rows
    BY <1>0, <2>1
  <2>4. \A x \in Renames : x # r /\ renaming'[x].pc = "install" => renaming[x].pc = "install"
    BY <1>0, <2>1
  <2>5. LoadsOK'
    BY <2>1, <2>2, <2>3, <2>4 DEF LoadsOK
  <2>6. RouterFollows'
    BY <2>2 DEF RouterFollows
  <2> QED
    BY <2>5, <2>6
<1>3. ASSUME NEW r \in Renames, InstallAliases(r)
      PROVE  LoadsOK' /\ RouterFollows'
  <2>1. /\ renaming[r].pc = "install" /\ cache' = renaming[r].rows
        /\ renaming' = [renaming EXCEPT ![r] = [pc |-> "done", rows |-> NoAliases]]
        /\ UNCHANGED <<aliases, crossed>>
    BY <1>3 DEF InstallAliases
  <2>2. Loading(r) /\ ~ Loading(r)' /\ \A x \in Renames : x # r => renaming'[x] = renaming[x]
    BY <1>0, <2>1 DEF Loading
  <2>3. \A x \in Renames : x # r => (Loading(x)' <=> Loading(x))
    BY <2>2 DEF Loading
  <2>4. LoadsOK'
    BY <2>1, <2>2, <2>3 DEF LoadsOK
  <2>5. RouterFollows'
    BY <2>1 DEF LoadsOK, RouterFollows
  <2> QED
    BY <2>4, <2>5
<1>4. CASE RestartSlugs
  <2>1. \A x \in Renames : ~ Loading(x)'
    BY <1>0, <1>4 DEF RestartSlugs, Loading
  <2>2. \A x \in Renames : renaming'[x].pc # "install"
    BY <2>1 DEF Loading
  <2> QED
    BY <1>4, <2>1, <2>2 DEF RestartSlugs, LoadsOK, RouterFollows
<1>5. ASSUME UNCHANGED <<aliases, cache, renaming, crossed>>
      PROVE  LoadsOK' /\ RouterFollows'
  BY <1>5 DEF LoadsOK, RouterFollows, Loading
<1>6. CASE \/ \E p \in Projects : FulfilPortal(p)
           \/ \E c \in Slug : CreateClient(c)
           \/ \E p \in Projects, c \in Slug, s \in 1..Title : CreateProject(p, At(c, s))
           \/ \E e \in Edits : \/ \E p \in Projects, c \in Slug : CheckClient(e, p, c)
                               \/ \E s \in 1..Title : PortalCreateProject(e, s)
                               \/ \E p \in Projects : ReadProject(e, p)
                               \/ \E c \in Slug, s \in 1..Title : UpdateProject(e, At(c, s))
           \/ UNCHANGED slugVars
  <2>1. UNCHANGED <<aliases, cache, renaming, crossed>>
    BY <1>6 DEF FulfilPortal, CreateClient, CreateProject, CheckClient, PortalCreateProject,
        ReadProject, UpdateProject, slugVars
  <2> QED
    BY <1>5, <2>1
<1> QED
  BY <1>1, <1>2, <1>3, <1>4, <1>6 DEF SlugsNext, RenameClient, RenameProject
-----------------------------------------------------------------------------
(***************************************************************************)
(* Whatever is renamed, typed, created and moved, in whatever order and    *)
(* however many requests are in flight, the redirects of slug_aliases end, *)
(* lead to something that exists unless a PUT moved it, hide no project a  *)
(* redemption made, and are those the router follows once renames that did *)
(* not overlap have answered (slugs.go).                                   *)
(***************************************************************************)
THEOREM AddressesAreSafe == SlugsSpec => []SlugsSafe
<1>1. SlugsInit => SlugsInv
  <2> SUFFICES ASSUME SlugsInit PROVE SlugsInv
    OBVIOUS
  <2>0. Live = {} /\ DOMAIN aliases = {} /\ \A r \in Renames : ~ Loading(r)
    BY DEF SlugsInit, Live, NoAliases, Loading
  <2>1. IsAliases(NoAliases)
    BY DEF IsAliases, NoAliases
  <2>2. SlugsTypeOK
    BY <2>1 DEF SlugsTypeOK, SlugsInit, NotEditing
  <2>3. RequestsOK
    BY DEF RequestsOK, SlugsInit, NotEditing
  <2>4. PathsApart /\ TableInv /\ AliasTargetsLive /\ ClientsOfPaths /\ NotShadowed
    BY <2>0 DEF PathsApart, TableInv, NoTargetAliased, ClientsToClients, LeavesByClient,
        AliasTargetsLive, ClientsOfPaths, NotShadowed
  <2>5. LoadsOK /\ RouterFollows
    BY <2>0 DEF LoadsOK, RouterFollows, SlugsInit, Loading
  <2> QED
    BY <2>2, <2>3, <2>4, <2>5 DEF SlugsInv
<1>2. SlugsInv /\ [SlugsNext]_slugVars => SlugsInv'
  BY SlugsTypeStep, TableStep, PathsStep, LoadsStep DEF SlugsInv, PathsInv
<1>3. SlugsInv => SlugsSafe
  BY ThreeHopsEnd DEF SlugsInv, SlugsSafe
<1> QED
  BY <1>1, <1>2, <1>3, PTL DEF SlugsSpec
-----------------------------------------------------------------------------
(* The workshop.  Three groups of variables, each with an invariant of its *)
(* own: the registrations, the coupons and the batches.                    *)

\* Rows and edits in flight are well typed; the mails of a first registration
\* carry the id of its row while they wait.
RegsInv ==
  /\ regs \in Seq(Row) /\ Len(regs) <= MaxRegs
  /\ lastInsert \in 0..MaxRegs
  /\ replies \subseteq [row: Ids, ref: 0..MaxRegs, first: BOOLEAN]
  /\ misfiled = {}
  /\ edits \in [AdminEdits -> [pc: {"idle", "read", "done"}, id: 0..MaxRegs, row: Row]]
  /\ \A m \in replies : m.first => m.ref = m.row

PassesOf(c) == {p \in passes : p.coupon = c}

\* A coupon's count is that of its passes, none or one, and a code that has not
\* been issued has made none; so nobody binds a coupon once it was used.
CouponInv ==
  /\ coupons \in [Coupons -> [state: {"none", "live", "expired"}, redeemed: Nat, reg: 0..MaxRegs]]
  /\ passes \subseteq [by: Redeems, coupon: Coupons, email: Emails, cohort: BOOLEAN]
  /\ \A c \in Coupons :
       /\ \/ coupons[c].redeemed = 0 /\ PassesOf(c) = {}
          \/ coupons[c].redeemed = 1 /\ \E p \in passes : PassesOf(c) = {p}
       /\ coupons[c].state = "none" => PassesOf(c) = {}
  /\ CohortFollowsCoupon

Recipients == [id: Ids, code: BOOLEAN, url: BOOLEAN]
EachOnce(s) == \A j, k \in DOMAIN s : s[j].id = s[k].id => j = k
Sending(b) == batch[b].pc \in {"send", "stamp"}
Taken(b, i) == \E k \in DOMAIN letters : letters[k] = <<b, i>>

\* A batch is sent to each recipient it has loaded once: those still to come
\* are distinct and none has had a letter, except the one whose row is to be
\* stamped; nothing was sent before the merge found no hole; and what was sent
\* is what the provider has taken.
BatchOK(b) ==
  /\ batch[b].pc \in {"idle", "load", "send", "stamp", "done"}
  /\ batch[b].alive \in BOOLEAN
  /\ batch[b].to \in Seq(Recipients)
  /\ EachOnce(batch[b].to)
  /\ batch[b].pc \in {"idle", "load"} => batch[b].sent = {}
  /\ Sending(b) =>
       /\ batch[b].todo \in Seq(Recipients)
       /\ EachOnce(batch[b].todo)
       /\ \A k \in DOMAIN batch[b].todo :
            batch[b].todo[k].id \in batch[b].sent <=> batch[b].pc = "stamp" /\ k = 1
  /\ batch[b].pc = "stamp" => batch[b].todo # <<>>
  /\ Sending(b) \/ batch[b].sent # {} =>
       \A n \in DOMAIN batch[b].to : ~ HasHole(batch[b].body, batch[b].to[n])
  /\ batch[b].sent = {i \in Ids : Taken(b, i)}

\* A batch is a record of these fields.
HasFields(r) ==
  r \in [pc: {r.pc}, body: {r.body}, todo: {r.todo}, to: {r.to}, sent: {r.sent}, alive: {r.alive}]
BatchFields == batch = [b \in Batches |-> batch[b]] /\ \A b \in Batches : HasFields(batch[b])

MailingsInv ==
  /\ BatchFields
  /\ letters \in Seq(Batches \X Ids)
  /\ LetterOnce
  /\ \A b \in Batches : BatchOK(b)
  /\ announced \subseteq [batch: Batches, ids: SUBSET Ids]
  /\ \A a \in announced : batch[a.batch].pc = "done" /\ a.ids = batch[a.batch].sent
  /\ \A i \in stamped : i \in Ids /\ \E k \in DOMAIN letters : letters[k][2] = i

WorkshopInv == RegsInv /\ CouponInv /\ MailingsInv
-----------------------------------------------------------------------------
(* Registrations.                                                          *)

\* A registration and its mail: a new row, given its own id, or an old one.
LEMMA RegisterKeeps ==
  ASSUME RegsInv, NEW e \in Emails, NEW consent \in BOOLEAN, Register(e, consent)
  PROVE  RegsInv'
<1> DEFINE mine == RegistrationOf(e)
<1> DEFINE new == [email |-> e, consent |-> consent, declined |-> FALSE]
<1>0. /\ MaxRegs \in Nat /\ Len(regs) \in Nat /\ DOMAIN regs = 1..Len(regs)
      /\ UNCHANGED <<misfiled, edits>>
  BY WorkshopAssumption DEF RegsInv, Register
<1>1. CASE mine = {}
  <2>1. /\ Len(regs) < MaxRegs /\ regs' = Append(regs, new) /\ lastInsert' = Len(regs) + 1
        /\ replies' = replies \cup {[row |-> Len(regs) + 1, ref |-> Len(regs) + 1, first |-> TRUE]}
    BY <1>1 DEF Register, NewId
  <2>2. new \in Row
    BY DEF Row
  <2> HIDE DEF new
  <2>3. regs' \in Seq(Row) /\ Len(regs') = Len(regs) + 1
    BY <2>1, <2>2 DEF RegsInv
  <2> DEFINE mail == [row |-> Len(regs) + 1, ref |-> Len(regs) + 1, first |-> TRUE]
  <2>4. mail \in [row: Ids, ref: 0..MaxRegs, first: BOOLEAN] /\ mail.ref = mail.row
    BY <1>0, <2>1 DEF Ids
  <2>5. replies' = replies \cup {mail}
    BY <2>1
  <2>6. lastInsert' \in 0..MaxRegs /\ Len(regs') <= MaxRegs
    BY <1>0, <2>1, <2>3
  <2> HIDE DEF mail
  <2> QED
    BY <1>0, <2>3, <2>4, <2>5, <2>6 DEF RegsInv
<1>2. CASE mine # {}
  <2>1. /\ regs' = [i \in DOMAIN regs |-> IF i \in mine THEN [regs[i] EXCEPT !.consent = consent]
                                          ELSE regs[i]]
        /\ replies' = replies \cup {[row |-> CHOOSE i \in mine : TRUE, ref |-> lastInsert, first |-> FALSE]}
        /\ lastInsert' = lastInsert
    BY <1>2 DEF Register
  <2>2. mine \subseteq DOMAIN regs /\ (CHOOSE i \in mine : TRUE) \in mine
    BY <1>2 DEF RegistrationOf
  <2>3. \A i \in DOMAIN regs : regs[i] \in Row /\ [regs[i] EXCEPT !.consent = consent] \in Row
    <3>1. \A row \in Row : [row EXCEPT !.consent = consent] \in Row
      BY DEF Row
    <3> QED
      BY <3>1 DEF RegsInv
  <2>4. regs' \in [1..Len(regs) -> Row]
    BY <1>0, <2>1, <2>3
  <2>5. regs' \in Seq(Row) /\ Len(regs') = Len(regs)
    BY <1>0, <2>4
  <2> DEFINE mail == [row |-> CHOOSE i \in mine : TRUE, ref |-> lastInsert, first |-> FALSE]
  <2>6. mail \in [row: Ids, ref: 0..MaxRegs, first: BOOLEAN] /\ mail.first = FALSE
    <3>1. (CHOOSE i \in mine : TRUE) \in Ids
      BY <1>0, <2>2 DEF RegsInv, Ids
    <3> HIDE DEF mine
    <3> QED
      BY <3>1 DEF RegsInv
  <2>7. replies' = replies \cup {mail}
    BY <2>1
  <2> HIDE DEF mail, mine
  <2> QED
    BY <1>0, <2>1, <2>5, <2>6, <2>7 DEF RegsInv
<1> QED
  BY <1>1, <1>2

\* Nothing else disturbs the rows, and a mail waits with the row it was given.
LEMMA RegsStep == RegsInv /\ [WorkshopNext]_workshopVars => RegsInv'
<1> SUFFICES ASSUME RegsInv, [WorkshopNext]_workshopVars PROVE RegsInv'
  OBVIOUS
<1>0. NoRow \in Row /\ 0 \in 0..MaxRegs
  BY WorkshopAssumption DEF NoRow, Row
<1>1. CASE \E e \in Emails, consent \in BOOLEAN : Register(e, consent)
  BY <1>1, RegisterKeeps
<1>2. ASSUME NEW m \in replies, ConfirmRegistration(m)
      PROVE  RegsInv'
  BY <1>0, <1>2 DEF ConfirmRegistration, RegsInv
<1>3. ASSUME NEW d \in AdminEdits, NEW i \in DOMAIN regs, ReadRegistration(d, i)
      PROVE  RegsInv'
  <2>1. regs[i] \in Row /\ i \in 0..MaxRegs
    BY WorkshopAssumption DEF RegsInv
  <2>2. edits' = [edits EXCEPT ![d] = [pc |-> "read", id |-> i, row |-> regs[i]]]
    BY <1>3 DEF ReadRegistration
  <2>3. edits' \in [AdminEdits -> [pc: {"idle", "read", "done"}, id: 0..MaxRegs, row: Row]]
    BY <2>1, <2>2 DEF RegsInv
  <2> QED
    BY <1>3, <2>3 DEF ReadRegistration, RegsInv
<1>4. ASSUME NEW d \in AdminEdits, NEW e \in Emails, NEW n \in BOOLEAN, WriteRegistration(d, e, n)
      PROVE  RegsInv'
  <2> DEFINE row == [edits[d].row EXCEPT !.email = e, !.declined = n]
  <2>1. edits[d].row \in Row
    BY DEF RegsInv
  <2>2. row \in Row
    BY <2>1 DEF Row
  <2>3. edits' \in [AdminEdits -> [pc: {"idle", "read", "done"}, id: 0..MaxRegs, row: Row]]
    BY <1>0, <1>4 DEF WriteRegistration, RegsInv
  <2>4. regs' = regs \/ regs' = [regs EXCEPT ![edits[d].id] = row]
    BY <1>4 DEF WriteRegistration
  <2> HIDE DEF row
  <2>5. regs' \in [1..Len(regs) -> Row] /\ Len(regs) \in Nat
    BY <2>2, <2>4 DEF RegsInv
  <2>6. regs' \in Seq(Row) /\ Len(regs') = Len(regs)
    BY <2>5
  <2> QED
    BY <1>4, <2>3, <2>6 DEF WriteRegistration, RegsInv
<1>5. CASE \E c \in Coupons : (\E i \in 0..Len(regs) : IssueCoupon(c, i)) \/ ExpireCoupon(c)
  BY <1>0, <1>5 DEF IssueCoupon, ExpireCoupon, RegsInv
<1>6. CASE \E x \in Redeems, c \in Coupons, e \in Emails : RedeemCoupon(x, c, e)
  BY <1>0, <1>6 DEF RedeemCoupon, RegsInv
<1>7. CASE \E b \in Batches : SendLetter(b)
  BY <1>0, <1>7 DEF SendLetter, RegsInv
<1>8. CASE \/ \E b \in Batches : \/ \E asked \in Asked, body \in Bodies : StartBatch(b, asked, body)
                                 \/ LoadRecipient(b) \/ MergeBatch(b) \/ StampRow(b)
                                 \/ FinishBatch(b) \/ LeaveBatch(b)
           \/ UNCHANGED workshopVars
  <2>1. UNCHANGED <<regs, lastInsert, replies, misfiled, edits>>
    BY <1>8 DEF StartBatch, LoadRecipient, MergeBatch, StampRow, FinishBatch, LeaveBatch,
        workshopVars
  <2> QED
    BY <2>1 DEF RegsInv
<1>9. CASE RestartWorkshop
  BY <1>9 DEF RestartWorkshop, RegsInv
<1> QED
  BY <1>1, <1>2, <1>3, <1>4, <1>5, <1>6, <1>7, <1>8, <1>9 DEF WorkshopNext
-----------------------------------------------------------------------------
(* Coupons.                                                                *)

\* Issuing, expiring and redeeming keep count and attribution: a coupon that
\* has made a pass is neither issued, redeemed nor bound again.
LEMMA CouponStep == RegsInv /\ CouponInv /\ [WorkshopNext]_workshopVars => CouponInv'
<1> SUFFICES ASSUME RegsInv, CouponInv, [WorkshopNext]_workshopVars PROVE CouponInv'
  OBVIOUS
<1>0. \A i \in DOMAIN regs : i \in 0..MaxRegs
  BY WorkshopAssumption DEF RegsInv
<1>1. ASSUME NEW c \in Coupons, NEW i \in 0..Len(regs), IssueCoupon(c, i)
      PROVE  CouponInv'
  <2>1. i \in 0..MaxRegs
    BY WorkshopAssumption DEF RegsInv
  <2>2. /\ coupons' = [coupons EXCEPT ![c] = [state |-> "live", redeemed |-> 0, reg |-> i]]
        /\ passes' = passes /\ coupons[c].state = "none"
    BY <1>1 DEF IssueCoupon
  <2>3. PassesOf(c) = {}
    BY <2>2 DEF CouponInv
  <2>4. \A p \in passes : p.coupon # c
    BY <2>3 DEF PassesOf
  <2>5. CohortFollowsCoupon'
    BY <2>2, <2>4 DEF CouponInv, CohortFollowsCoupon
  <2>6. \A x \in Coupons : PassesOf(x)' = PassesOf(x)
    BY <2>2 DEF PassesOf
  <2> QED
    BY <2>1, <2>2, <2>3, <2>5, <2>6 DEF CouponInv
<1>2. ASSUME NEW c \in Coupons, ExpireCoupon(c)
      PROVE  CouponInv'
  <2>1. coupons' = [coupons EXCEPT ![c].state = "expired"] /\ passes' = passes
    BY <1>2 DEF ExpireCoupon
  <2>2. /\ coupons' \in [Coupons -> [state: {"none", "live", "expired"}, redeemed: Nat, reg: 0..MaxRegs]]
        /\ \A x \in Coupons : /\ coupons'[x].redeemed = coupons[x].redeemed
                              /\ coupons'[x].reg = coupons[x].reg
                              /\ coupons'[x].state = "none" => coupons[x].state = "none"
    BY <2>1 DEF CouponInv
  <2>3. \A x \in Coupons : PassesOf(x)' = PassesOf(x)
    BY <2>1 DEF PassesOf
  <2> QED
    BY <2>1, <2>2, <2>3 DEF CouponInv, CohortFollowsCoupon
<1>3. ASSUME NEW x \in Redeems, NEW c \in Coupons, NEW e \in Emails, RedeemCoupon(x, c, e)
      PROVE  CouponInv'
  <2> DEFINE reg == IF coupons[c].reg # 0 THEN coupons[c].reg
                    ELSE IF RegistrationOf(e) = {} THEN 0 ELSE CHOOSE i \in RegistrationOf(e) : TRUE
  <2> DEFINE pass == [by |-> x, coupon |-> c, email |-> e, cohort |-> Cohort(c, reg)]
  <2>1. RegistrationOf(e) # {} => (CHOOSE i \in RegistrationOf(e) : TRUE) \in DOMAIN regs
    BY DEF RegistrationOf
  <2>2. reg \in 0..MaxRegs
    BY <1>0, <2>1, WorkshopAssumption DEF CouponInv
  <2>3. /\ coupons' = [coupons EXCEPT ![c].redeemed = @ + 1, ![c].reg = reg]
        /\ passes' = passes \cup {pass}
        /\ coupons[c].state = "live" /\ coupons[c].redeemed < 1
    BY <1>3 DEF RedeemCoupon, Redeemable
  <2>4. /\ pass \in [by: Redeems, coupon: Coupons, email: Emails, cohort: BOOLEAN]
        /\ pass.coupon = c /\ (pass.cohort <=> reg # 0)
    BY DEF Cohort
  <2> HIDE DEF reg, pass
  <2>5. coupons[c].redeemed = 0 /\ PassesOf(c) = {}
    BY <2>3 DEF CouponInv
  <2>6. /\ coupons' \in [Coupons -> [state: {"none", "live", "expired"}, redeemed: Nat, reg: 0..MaxRegs]]
        /\ coupons'[c].redeemed = 1 /\ coupons'[c].reg = reg /\ coupons'[c].state = "live"
        /\ \A y \in Coupons : y # c => coupons'[y] = coupons[y]
    <3> DEFINE Coupon == [state: {"none", "live", "expired"}, redeemed: Nat, reg: 0..MaxRegs]
    <3> DEFINE row == [coupons[c] EXCEPT !.redeemed = 1, !.reg = reg]
    <3>0. \A w \in Coupon, g \in 0..MaxRegs :
             /\ [w EXCEPT !.redeemed = 1, !.reg = g] \in Coupon
             /\ [w EXCEPT !.redeemed = 1, !.reg = g].redeemed = 1
             /\ [w EXCEPT !.redeemed = 1, !.reg = g].reg = g
             /\ [w EXCEPT !.redeemed = 1, !.reg = g].state = w.state
      OBVIOUS
    <3>1. coupons \in [Coupons -> Coupon] /\ coupons[c] \in Coupon
      BY DEF CouponInv
    <3>2. row \in Coupon /\ row.redeemed = 1 /\ row.reg = reg /\ row.state = "live"
      BY <2>2, <2>3, <3>0, <3>1
    <3>3. coupons'[c] = row
      <4> HIDE DEF Coupon
      <4>1. coupons' = [[coupons EXCEPT ![c] = [coupons[c] EXCEPT !.redeemed = 1]]
                          EXCEPT ![c].reg = reg]
        BY <2>3, <2>5, <3>1
      <4> QED
        BY <3>1, <4>1
    <3> HIDE DEF row, Coupon
    <3>4. coupons' \in [Coupons -> Coupon] /\ \A y \in Coupons : y # c => coupons'[y] = coupons[y]
      <4>1. DOMAIN coupons' = Coupons /\ \A y \in Coupons : y # c => coupons'[y] = coupons[y]
        BY <2>3, <3>1
      <4>2. coupons' = [y \in Coupons |-> coupons'[y]]
        BY <2>3, <3>1
      <4> QED
        BY <3>1, <3>2, <3>3, <4>1, <4>2
    <3> QED
      BY <3>2, <3>3, <3>4 DEF Coupon
  <2>7. PassesOf(c)' = {pass} /\ \A y \in Coupons : y # c => PassesOf(y)' = PassesOf(y)
    BY <2>3, <2>4, <2>5 DEF PassesOf
  <2>8. ASSUME NEW p \in passes'
        PROVE  p.cohort <=> coupons'[p.coupon].reg # 0
    <3>1. CASE p = pass
      BY <2>4, <2>6, <3>1
    <3>2. CASE p # pass
      <4>1. p \in passes /\ p.coupon # c /\ p.coupon \in Coupons
        BY <2>3, <2>5, <3>2 DEF PassesOf, CouponInv
      <4> QED
        BY <2>6, <4>1 DEF CouponInv, CohortFollowsCoupon
    <3> QED
      BY <3>1, <3>2
  <2>9. CohortFollowsCoupon'
    BY <2>8 DEF CohortFollowsCoupon
  <2>10. pass \in passes' /\ passes' \subseteq [by: Redeems, coupon: Coupons, email: Emails, cohort: BOOLEAN]
    BY <2>3, <2>4 DEF CouponInv
  <2>11. ASSUME NEW y \in Coupons
         PROVE  /\ \/ coupons'[y].redeemed = 0 /\ PassesOf(y)' = {}
                   \/ coupons'[y].redeemed = 1 /\ \E p \in passes' : PassesOf(y)' = {p}
                /\ coupons'[y].state = "none" => PassesOf(y)' = {}
    <3>1. CASE y = c
      BY <2>6, <2>7, <2>10, <3>1
    <3>2. CASE y # c
      BY <2>3, <2>6, <2>7, <3>2 DEF CouponInv
    <3> QED
      BY <3>1, <3>2
  <2> QED
    BY <2>6, <2>9, <2>10, <2>11 DEF CouponInv
<1>4. CASE \/ \E e \in Emails, consent \in BOOLEAN : Register(e, consent)
           \/ \E m \in replies : ConfirmRegistration(m)
           \/ \E d \in AdminEdits : \/ \E i \in DOMAIN regs : ReadRegistration(d, i)
                                    \/ \E e \in Emails, n \in BOOLEAN : WriteRegistration(d, e, n)
           \/ \E b \in Batches : \/ \E asked \in Asked, body \in Bodies : StartBatch(b, asked, body)
                                 \/ LoadRecipient(b) \/ MergeBatch(b) \/ SendLetter(b)
                                 \/ StampRow(b) \/ FinishBatch(b) \/ LeaveBatch(b)
           \/ RestartWorkshop
           \/ UNCHANGED workshopVars
  <2>1. UNCHANGED <<coupons, passes>>
    BY <1>4 DEF Register, ConfirmRegistration, ReadRegistration, WriteRegistration, StartBatch,
        LoadRecipient, MergeBatch, SendLetter, StampRow, FinishBatch, LeaveBatch,
        RestartWorkshop, workshopVars
  <2> QED
    BY <2>1 DEF CouponInv, CohortFollowsCoupon, PassesOf
<1> QED
  BY <1>1, <1>2, <1>3, <1>4 DEF WorkshopNext

\* One pass or none is what CouponSpentOnce counts.
LEMMA SpentOnce == CouponInv => CouponSpentOnce
<1> SUFFICES ASSUME CouponInv, NEW c \in Coupons
             PROVE  Cardinality(PassesOf(c)) = coupons[c].redeemed /\ Cardinality(PassesOf(c)) <= 1
  BY DEF CouponSpentOnce, PassesOf
<1>1. CASE coupons[c].redeemed = 0 /\ PassesOf(c) = {}
  BY <1>1, FS_EmptySet
<1>2. CASE coupons[c].redeemed = 1 /\ \E p \in passes : PassesOf(c) = {p}
  <2>1. PICK p \in passes : PassesOf(c) = {p}
    BY <1>2
  <2>2. Cardinality({p}) = 1
    BY FS_Singleton
  <2> QED
    BY <1>2, <2>1, <2>2
<1> QED
  BY <1>1, <1>2 DEF CouponInv
-----------------------------------------------------------------------------
(* Batches.                                                                *)

\* loadRecipient keeps the list one of recipients, each once.
LEMMA AddKeepsOnce ==
  ASSUME RegsInv, NEW to \in Seq(Recipients), EachOnce(to), NEW i
  PROVE  AddRecipient(to, i) \in Seq(Recipients) /\ EachOnce(AddRecipient(to, i))
<1>1. CASE Eligible(i) /\ \A k \in DOMAIN to : to[k].id # i
  <2> DEFINE rec == Recipient(i)
  <2>1. i \in Ids
    BY <1>1, WorkshopAssumption DEF RegsInv, Eligible, Ids
  <2>2. rec \in Recipients /\ rec.id = i
    BY <2>1 DEF Recipient, Recipients
  <2>3. AddRecipient(to, i) = Append(to, rec)
    BY <1>1 DEF AddRecipient
  <2> HIDE DEF rec
  <2>4. /\ Append(to, rec) \in Seq(Recipients)
        /\ DOMAIN Append(to, rec) = DOMAIN to \cup {Len(to) + 1}
        /\ \A k \in DOMAIN to : Append(to, rec)[k] = to[k]
        /\ Append(to, rec)[Len(to) + 1] = rec
    BY <2>2
  <2> QED
    BY <1>1, <2>2, <2>3, <2>4 DEF EachOnce
<1>2. CASE ~ (Eligible(i) /\ \A k \in DOMAIN to : to[k].id # i)
  BY <1>2 DEF AddRecipient
<1> QED
  BY <1>1, <1>2

\* What is left of a list after its head.
LEMMA TailIsLater ==
  ASSUME NEW s \in Seq(Recipients), s # <<>>
  PROVE  /\ Tail(s) \in Seq(Recipients) /\ 1 \in DOMAIN s /\ Head(s) = s[1]
         /\ Head(s) \in Recipients /\ Head(s).id \in Ids
         /\ \A k \in DOMAIN Tail(s) : k + 1 \in DOMAIN s /\ k + 1 # 1 /\ Tail(s)[k] = s[k + 1]
         /\ EachOnce(s) => EachOnce(Tail(s))
<1>1. /\ Tail(s) \in Seq(Recipients) /\ 1 \in DOMAIN s /\ Head(s) = s[1] /\ s[1] \in Recipients
      /\ \A k \in DOMAIN Tail(s) : /\ k \in Nat \ {0} /\ k + 1 \in DOMAIN s
                                   /\ Tail(s)[k] = s[k + 1]
  OBVIOUS
<1>2. EachOnce(s) => EachOnce(Tail(s))
  <2> SUFFICES ASSUME EachOnce(s), NEW j \in DOMAIN Tail(s), NEW k \in DOMAIN Tail(s),
                      Tail(s)[j].id = Tail(s)[k].id
               PROVE  j = k
    BY DEF EachOnce
  <2>1. j + 1 = k + 1
    BY <1>1 DEF EachOnce
  <2> QED
    BY <1>1, <2>1
<1> QED
  BY <1>1, <1>2 DEF Recipients

\* Writing one batch.
LEMMA BatchWritten ==
  ASSUME BatchFields, NEW b \in Batches, NEW row, HasFields(row),
         batch' = [batch EXCEPT ![b] = row]
  PROVE  BatchFields' /\ batch'[b] = row /\ \A x \in Batches : x # b => batch'[x] = batch[x]
  BY DEF BatchFields

\* A step of one batch that sends nothing: what it does to that batch is all
\* there is to check, if the rows it stamps had their letter and the log it
\* writes is of what it sent.
LEMMA OneBatch ==
  ASSUME MailingsInv, NEW b \in Batches, BatchFields',
         \A x \in Batches : x # b => batch'[x] = batch[x],
         batch[b].pc # "done", BatchOK(b)', letters' = letters,
         \A i \in stamped' : i \in stamped \/ i \in batch[b].sent,
         \/ announced' = announced
         \/ /\ announced' = announced \cup {[batch |-> b, ids |-> batch'[b].sent]}
            /\ batch'[b].pc = "done"
  PROVE  MailingsInv'
<1>1. ASSUME NEW x \in Batches
      PROVE  BatchOK(x)'
  <2>1. CASE x = b
    BY <2>1
  <2>2. CASE x # b
    <3>1. BatchOK(x) /\ batch'[x] = batch[x]
      BY <2>2 DEF MailingsInv
    <3> QED
      BY <3>1 DEF BatchOK, Sending, Taken
  <2> QED
    BY <2>1, <2>2
<1>2. batch'[b].sent \subseteq Ids
  BY DEF BatchOK
<1>3. LetterOnce' /\ letters' \in Seq(Batches \X Ids)
  BY DEF MailingsInv, LetterOnce
<1>4. ASSUME NEW i \in stamped'
      PROVE  i \in Ids /\ \E k \in DOMAIN letters : letters[k][2] = i
  <2>1. CASE i \in stamped
    BY <2>1 DEF MailingsInv
  <2>2. CASE i \in batch[b].sent
    <3>1. i \in Ids /\ Taken(b, i)
      BY <2>2 DEF MailingsInv, BatchOK
    <3> QED
      BY <3>1 DEF Taken
  <2> QED
    BY <2>1, <2>2
<1>5. announced' \subseteq [batch: Batches, ids: SUBSET Ids]
  BY <1>2 DEF MailingsInv
<1>6. ASSUME NEW a \in announced'
      PROVE  batch'[a.batch].pc = "done" /\ a.ids = batch'[a.batch].sent
  <2>1. CASE a \in announced
    BY <2>1 DEF MailingsInv
  <2>2. CASE a \notin announced
    BY <2>2
  <2> QED
    BY <2>1, <2>2
<1> QED
  BY <1>1, <1>3, <1>4, <1>5, <1>6 DEF MailingsInv

\* Asking for a batch, loading and merging it.
LEMMA BatchPrepared ==
  ASSUME RegsInv, MailingsInv, NEW b \in Batches,
         \/ \E asked \in Asked, body \in Bodies : StartBatch(b, asked, body)
         \/ LoadRecipient(b) \/ MergeBatch(b)
  PROVE  MailingsInv'
<1>0. BatchFields /\ BatchOK(b)
  BY DEF MailingsInv
<1>1. ASSUME NEW asked \in Asked, NEW body \in Bodies, StartBatch(b, asked, body)
      PROVE  MailingsInv'
  <2>1. /\ batch[b].pc = "idle" /\ UNCHANGED <<letters, stamped, announced>>
        /\ batch' = [batch EXCEPT ![b].pc = "load", ![b].todo = WithSmoke(asked), ![b].body = body]
    BY <1>1 DEF StartBatch
  <2>2. /\ BatchFields' /\ \A x \in Batches : x # b => batch'[x] = batch[x]
        /\ batch'[b].pc = "load" /\ batch'[b].to = batch[b].to
        /\ batch'[b].sent = batch[b].sent /\ batch'[b].alive = batch[b].alive
    <3> DEFINE ids == WithSmoke(asked)
    <3> DEFINE row == [batch[b] EXCEPT !.pc = "load", !.todo = ids, !.body = body]
    <3>1. batch' = [batch EXCEPT ![b] = row]
      BY <1>0, <2>1 DEF BatchFields
    <3> HIDE DEF ids
    <3>2. /\ HasFields(row) /\ row.pc = "load" /\ row.to = batch[b].to
          /\ row.sent = batch[b].sent /\ row.alive = batch[b].alive
      BY <1>0 DEF BatchFields, HasFields
    <3> HIDE DEF row
    <3> QED
      BY <1>0, <3>1, <3>2, BatchWritten
  <2>3. BatchOK(b)'
    BY <1>0, <2>1, <2>2 DEF BatchOK, Sending, Taken
  <2> QED
    BY <2>1, <2>2, <2>3, OneBatch
<1>2. CASE LoadRecipient(b)
  <2> DEFINE to == AddRecipient(batch[b].to, Head(batch[b].todo))
  <2>1. /\ batch[b].pc = "load" /\ UNCHANGED <<letters, stamped, announced>>
        /\ batch' = [batch EXCEPT ![b] = [batch[b] EXCEPT !.todo = Tail(batch[b].todo), !.to = to]]
    BY <1>0, <1>2 DEF LoadRecipient, BatchFields
  <2>2. to \in Seq(Recipients) /\ EachOnce(to)
    BY <1>0, AddKeepsOnce DEF BatchOK
  <2> HIDE DEF to
  <2>3. /\ BatchFields' /\ \A x \in Batches : x # b => batch'[x] = batch[x]
        /\ batch'[b].pc = "load" /\ batch'[b].to = to
        /\ batch'[b].sent = batch[b].sent /\ batch'[b].alive = batch[b].alive
    <3> DEFINE row == [batch[b] EXCEPT !.todo = Tail(batch[b].todo), !.to = to]
    <3>1. /\ HasFields(row) /\ row.pc = "load" /\ row.to = to
          /\ row.sent = batch[b].sent /\ row.alive = batch[b].alive
      BY <1>0, <2>1 DEF BatchFields, HasFields
    <3>2. batch' = [batch EXCEPT ![b] = row]
      BY <2>1
    <3> HIDE DEF row
    <3> QED
      BY <1>0, <3>1, <3>2, BatchWritten
  <2>4. BatchOK(b)'
    BY <1>0, <2>1, <2>2, <2>3 DEF BatchOK, Sending, Taken
  <2> QED
    BY <2>1, <2>3, <2>4, OneBatch
<1>3. CASE MergeBatch(b)
  <2>1. /\ batch[b].pc = "load" /\ UNCHANGED <<letters, stamped, announced>>
        /\ batch' = [batch EXCEPT ![b].pc = IF Refusable(b) THEN "done" ELSE "send",
                                  ![b].todo = IF Refusable(b) THEN <<>> ELSE batch[b].to]
    BY <1>3 DEF MergeBatch
  <2> DEFINE pc == IF Refusable(b) THEN "done" ELSE "send"
  <2> DEFINE todo == IF Refusable(b) THEN <<>> ELSE batch[b].to
  <2>2. /\ BatchFields' /\ \A x \in Batches : x # b => batch'[x] = batch[x]
        /\ batch'[b].pc = pc /\ batch'[b].todo = todo
        /\ batch'[b].to = batch[b].to /\ batch'[b].body = batch[b].body
        /\ batch'[b].sent = batch[b].sent /\ batch'[b].alive = batch[b].alive
    <3> DEFINE row == [batch[b] EXCEPT !.pc = pc, !.todo = todo]
    <3> HIDE DEF pc, todo
    <3>1. batch' = [batch EXCEPT ![b].pc = pc, ![b].todo = todo]
      BY <2>1 DEF pc, todo
    <3>2. batch' = [batch EXCEPT ![b] = row]
      BY <1>0, <3>1 DEF BatchFields
    <3>3. /\ HasFields(row) /\ row.pc = pc /\ row.todo = todo
          /\ row.to = batch[b].to /\ row.body = batch[b].body
          /\ row.sent = batch[b].sent /\ row.alive = batch[b].alive
      BY <1>0 DEF BatchFields, HasFields
    <3> HIDE DEF row
    <3> QED
      BY <1>0, <3>2, <3>3, BatchWritten
  <2>3. BatchOK(b)'
    <3>1. batch[b].sent = {} /\ batch'[b].sent = {i \in Ids : Taken(b, i)'}
      BY <1>0, <2>1, <2>2 DEF BatchOK, Taken
    <3>2. CASE Refusable(b)
      BY <1>0, <2>2, <3>1, <3>2 DEF BatchOK, Sending
    <3>3. CASE ~ Refusable(b)
      <4>1. \A n \in DOMAIN batch[b].to : ~ HasHole(batch[b].body, batch[b].to[n])
        BY <3>3 DEF Refusable
      <4>2. pc = "send" /\ todo = batch[b].to
        BY <3>3
      <4> QED
        BY <1>0, <2>2, <3>1, <4>1, <4>2 DEF BatchOK, Sending
    <3> QED
      BY <3>2, <3>3
  <2> QED
    BY <2>1, <2>2, <2>3, OneBatch
<1> QED
  BY <1>1, <1>2, <1>3

\* The provider takes a letter: nobody of the batch to come has had one.
LEMMA LetterTaken ==
  ASSUME MailingsInv, NEW b \in Batches, batch[b].pc = "send", batch[b].todo # <<>>,
         letters' = Append(letters, <<b, Head(batch[b].todo).id>>),
         batch' = [batch EXCEPT ![b].pc = "stamp", ![b].sent = @ \cup {Head(batch[b].todo).id}],
         UNCHANGED <<stamped, announced>>
  PROVE  MailingsInv'
<1>0. BatchFields /\ BatchOK(b)
  BY DEF MailingsInv
<1> DEFINE todo == batch[b].todo
<1> DEFINE i == Head(todo).id
<1>1. /\ todo \in Seq(Recipients) /\ EachOnce(todo) /\ todo # <<>>
      /\ \A k \in DOMAIN todo : todo[k].id \notin batch[b].sent
  BY <1>0 DEF BatchOK, Sending
<1>2. 1 \in DOMAIN todo /\ i = todo[1].id /\ i \in Ids /\ i \notin batch[b].sent
  <2> HIDE DEF todo
  <2>1. 1 \in DOMAIN todo /\ Head(todo) = todo[1] /\ Head(todo).id \in Ids
    BY <1>1, TailIsLater
  <2> QED
    BY <1>1, <2>1
<1>3. /\ BatchFields' /\ \A x \in Batches : x # b => batch'[x] = batch[x]
      /\ batch'[b].pc = "stamp" /\ batch'[b].sent = batch[b].sent \cup {i}
      /\ batch'[b].to = batch[b].to /\ batch'[b].body = batch[b].body
      /\ batch'[b].todo = todo /\ batch'[b].alive = batch[b].alive
  <2> DEFINE sent == batch[b].sent \cup {i}
  <2>1. batch' = [batch EXCEPT ![b].pc = "stamp", ![b].sent = sent]
    BY <1>0 DEF BatchFields
  <2> HIDE DEF sent
  <2>2. /\ BatchFields' /\ \A x \in Batches : x # b => batch'[x] = batch[x]
        /\ batch'[b].pc = "stamp" /\ batch'[b].sent = sent
        /\ batch'[b].to = batch[b].to /\ batch'[b].body = batch[b].body
        /\ batch'[b].todo = todo /\ batch'[b].alive = batch[b].alive
    <3> DEFINE row == [batch[b] EXCEPT !.pc = "stamp", !.sent = sent]
    <3>1. batch' = [batch EXCEPT ![b] = row]
      BY <1>0, <2>1 DEF BatchFields
    <3>2. /\ HasFields(row) /\ row.pc = "stamp" /\ row.sent = sent
          /\ row.to = batch[b].to /\ row.body = batch[b].body
          /\ row.todo = todo /\ row.alive = batch[b].alive
      BY <1>0 DEF BatchFields, HasFields
    <3> HIDE DEF row
    <3> QED
      BY <1>0, <3>1, <3>2, BatchWritten
  <2> QED
    BY <2>2 DEF sent
<1>4. letters' = Append(letters, <<b, i>>) /\ letters \in Seq(Batches \X Ids)
  BY DEF MailingsInv
<1>5. batch[b].sent = {j \in Ids : Taken(b, j)}
  BY <1>0 DEF BatchOK
<1> HIDE DEF todo, i
<1>6. /\ letters' \in Seq(Batches \X Ids)
      /\ DOMAIN letters' = DOMAIN letters \cup {Len(letters) + 1}
      /\ Len(letters) + 1 \notin DOMAIN letters
      /\ letters'[Len(letters) + 1] = <<b, i>>
      /\ \A k \in DOMAIN letters : letters'[k] = letters[k]
  <2> DEFINE l == <<b, i>>
  <2>1. l \in Batches \X Ids
    BY <1>2
  <2> HIDE DEF l
  <2>2. letters' = Append(letters, l)
    BY <1>4 DEF l
  <2>3. /\ Append(letters, l) \in Seq(Batches \X Ids)
        /\ DOMAIN Append(letters, l) = DOMAIN letters \cup {Len(letters) + 1}
        /\ Len(letters) + 1 \notin DOMAIN letters
        /\ Append(letters, l)[Len(letters) + 1] = l
        /\ \A k \in DOMAIN letters : Append(letters, l)[k] = letters[k]
    BY <1>4, <2>1
  <2> QED
    BY <2>2, <2>3 DEF l
<1>7. ~ Taken(b, i)
  BY <1>2, <1>5
<1>8. LetterOnce'
  BY <1>6, <1>7 DEF MailingsInv, LetterOnce, Taken
<1>9. ASSUME NEW x \in Batches, NEW j \in Ids
      PROVE  Taken(x, j)' <=> Taken(x, j) \/ (x = b /\ j = i)
  <2>1. ASSUME Taken(x, j)'
        PROVE  Taken(x, j) \/ (x = b /\ j = i)
    <3>1. PICK k \in DOMAIN letters' : letters'[k] = <<x, j>>
      BY <2>1 DEF Taken
    <3>2. CASE k \in DOMAIN letters
      BY <1>6, <3>1, <3>2 DEF Taken
    <3>3. CASE k \notin DOMAIN letters
      BY <1>6, <3>1, <3>3
    <3> QED
      BY <3>2, <3>3
  <2>2. ASSUME Taken(x, j)
        PROVE  Taken(x, j)'
    BY <1>6, <2>2 DEF Taken
  <2>3. ASSUME x = b, j = i
        PROVE  Taken(x, j)'
    BY <1>6, <2>3 DEF Taken
  <2> QED
    BY <2>1, <2>2, <2>3
<1>10. BatchOK(b)'
  <2>1. batch'[b].sent = {j \in Ids : Taken(b, j)'}
    BY <1>2, <1>3, <1>5, <1>9
  <2>2. \A k \in DOMAIN todo : todo[k].id \in batch'[b].sent <=> k = 1
    BY <1>1, <1>2, <1>3 DEF EachOnce
  <2>3. \A n \in DOMAIN batch[b].to : ~ HasHole(batch[b].body, batch[b].to[n])
    BY <1>0 DEF BatchOK, Sending
  <2> QED
    BY <1>0, <1>1, <1>3, <2>1, <2>2, <2>3 DEF BatchOK, Sending
<1>11. ASSUME NEW x \in Batches
       PROVE  BatchOK(x)'
  <2>1. CASE x = b
    BY <1>10, <2>1
  <2>2. CASE x # b
    <3>1. BatchOK(x) /\ batch'[x] = batch[x] /\ \A j \in Ids : Taken(x, j)' <=> Taken(x, j)
      BY <1>3, <1>9, <2>2 DEF MailingsInv
    <3> QED
      BY <3>1 DEF BatchOK, Sending
  <2> QED
    BY <2>1, <2>2
<1>12. \A a \in announced : a.batch # b /\ a.batch \in Batches
  BY DEF MailingsInv
<1>13. \A j \in stamped : j \in Ids /\ \E k \in DOMAIN letters' : letters'[k][2] = j
  BY <1>6 DEF MailingsInv
<1> QED
  BY <1>3, <1>6, <1>8, <1>11, <1>12, <1>13, ZenonT(30) DEF MailingsInv

\* Sending a batch, also when the provider fails or the browser has gone.
LEMMA BatchSent ==
  ASSUME MailingsInv, NEW b \in Batches,
         SendLetter(b) \/ StampRow(b) \/ FinishBatch(b) \/ LeaveBatch(b)
  PROVE  MailingsInv'
<1>0. BatchFields /\ BatchOK(b)
  BY DEF MailingsInv
<1>1. ASSUME batch[b].pc \in {"send", "stamp"}, batch[b].todo # <<>>
      PROVE  /\ Tail(batch[b].todo) \in Seq(Recipients) /\ EachOnce(Tail(batch[b].todo))
             /\ \A k \in DOMAIN Tail(batch[b].todo) : Tail(batch[b].todo)[k].id \notin batch[b].sent
             /\ batch[b].pc = "stamp" => Head(batch[b].todo).id \in batch[b].sent
  <2> DEFINE todo == batch[b].todo
  <2>1. /\ todo \in Seq(Recipients) /\ EachOnce(todo) /\ todo # <<>>
        /\ \A k \in DOMAIN todo : todo[k].id \in batch[b].sent <=> batch[b].pc = "stamp" /\ k = 1
    BY <1>0, <1>1 DEF BatchOK, Sending
  <2> HIDE DEF todo
  <2>2. /\ Tail(todo) \in Seq(Recipients) /\ EachOnce(Tail(todo))
        /\ 1 \in DOMAIN todo /\ Head(todo) = todo[1]
        /\ \A k \in DOMAIN Tail(todo) : k + 1 \in DOMAIN todo /\ k + 1 # 1 /\ Tail(todo)[k] = todo[k + 1]
    BY <2>1, TailIsLater
  <2> QED
    BY <2>1, <2>2 DEF todo
<1>2. ASSUME batch[b].pc \in {"send", "stamp"}, batch[b].todo # <<>>,
             batch' = [batch EXCEPT ![b].pc = "send", ![b].todo = Tail(@)],
             letters' = letters, announced' = announced,
             \A i \in stamped' : i \in stamped \/ i \in batch[b].sent
      PROVE  MailingsInv'
  <2> DEFINE rest == Tail(batch[b].todo)
  <2>1. batch' = [batch EXCEPT ![b].pc = "send", ![b].todo = rest]
    BY <1>0, <1>2 DEF BatchFields
  <2>2. /\ rest \in Seq(Recipients) /\ EachOnce(rest)
        /\ \A k \in DOMAIN rest : rest[k].id \notin batch[b].sent
    BY <1>1, <1>2
  <2> HIDE DEF rest
  <2>3. /\ BatchFields' /\ \A x \in Batches : x # b => batch'[x] = batch[x]
        /\ batch'[b].pc = "send" /\ batch'[b].todo = rest
        /\ batch'[b].to = batch[b].to /\ batch'[b].body = batch[b].body
        /\ batch'[b].sent = batch[b].sent /\ batch'[b].alive = batch[b].alive
    <3> DEFINE row == [batch[b] EXCEPT !.pc = "send", !.todo = rest]
    <3>1. batch' = [batch EXCEPT ![b] = row]
      BY <1>0, <2>1 DEF BatchFields
    <3>2. /\ HasFields(row) /\ row.pc = "send" /\ row.todo = rest
          /\ row.to = batch[b].to /\ row.body = batch[b].body
          /\ row.sent = batch[b].sent /\ row.alive = batch[b].alive
      BY <1>0 DEF BatchFields, HasFields
    <3> HIDE DEF row
    <3> QED
      BY <1>0, <3>1, <3>2, BatchWritten
  <2>4. BatchOK(b)'
    <3>1. batch'[b].sent = {i \in Ids : Taken(b, i)'}
      BY <1>0, <1>2, <2>3, ZenonT(30) DEF BatchOK, Taken
    <3>2. \A n \in DOMAIN batch[b].to : ~ HasHole(batch[b].body, batch[b].to[n])
      BY <1>0, <1>2 DEF BatchOK, Sending
    <3> QED
      BY <1>0, <2>2, <2>3, <3>1, <3>2 DEF BatchOK, Sending
  <2> QED
    BY <1>2, <2>3, <2>4, OneBatch
<1>3. CASE SendLetter(b)
  <2>1. CASE letters' = Append(letters, <<b, Head(batch[b].todo).id>>)
             /\ batch' = [batch EXCEPT ![b].pc = "stamp", ![b].sent = @ \cup {Head(batch[b].todo).id}]
    BY <1>3, <2>1, LetterTaken DEF SendLetter
  <2>2. CASE letters' = letters /\ batch' = [batch EXCEPT ![b].todo = Tail(@)]
    <3>1. batch[b].pc = "send" /\ batch[b].todo # <<>> /\ UNCHANGED <<stamped, announced>>
      BY <1>3 DEF SendLetter
    <3>2. batch' = [batch EXCEPT ![b].pc = "send", ![b].todo = Tail(@)]
      BY <1>0, <2>2, <3>1 DEF BatchFields
    <3> QED
      BY <1>2, <2>2, <3>1, <3>2
  <2> QED
    BY <1>3, <2>1, <2>2 DEF SendLetter
<1>4. CASE StampRow(b)
  <2>1. /\ batch[b].pc = "stamp" /\ UNCHANGED <<letters, announced>>
        /\ batch' = [batch EXCEPT ![b].pc = "send", ![b].todo = Tail(@)]
        /\ stamped' \subseteq stamped \cup {Head(batch[b].todo).id}
    BY <1>4 DEF StampRow
  <2>2. batch[b].todo # <<>>
    BY <1>0, <2>1 DEF BatchOK
  <2>3. Head(batch[b].todo).id \in batch[b].sent
    BY <1>1, <2>1, <2>2
  <2> QED
    BY <1>2, <2>1, <2>2, <2>3
<1>5. CASE FinishBatch(b)
  <2>1. /\ batch[b].pc = "send" /\ UNCHANGED <<letters, stamped>>
        /\ batch' = [batch EXCEPT ![b].pc = "done"]
        /\ announced' = announced \/ announced' = announced \cup {[batch |-> b, ids |-> batch[b].sent]}
    BY <1>5 DEF FinishBatch, LoggedIds
  <2>2. /\ BatchFields' /\ \A x \in Batches : x # b => batch'[x] = batch[x]
        /\ batch'[b].pc = "done"
        /\ batch'[b].to = batch[b].to /\ batch'[b].body = batch[b].body
        /\ batch'[b].sent = batch[b].sent /\ batch'[b].alive = batch[b].alive
    <3> DEFINE row == [batch[b] EXCEPT !.pc = "done"]
    <3>1. batch' = [batch EXCEPT ![b] = row]
      BY <1>0, <2>1 DEF BatchFields
    <3>2. /\ HasFields(row) /\ row.pc = "done"
          /\ row.to = batch[b].to /\ row.body = batch[b].body
          /\ row.sent = batch[b].sent /\ row.alive = batch[b].alive
      BY <1>0 DEF BatchFields, HasFields
    <3> HIDE DEF row
    <3> QED
      BY <1>0, <3>1, <3>2, BatchWritten
  <2>3. BatchOK(b)'
    BY <1>0, <2>1, <2>2 DEF BatchOK, Sending, Taken
  <2> QED
    BY <2>1, <2>2, <2>3, OneBatch
<1>6. CASE LeaveBatch(b)
  <2>1. /\ batch[b].pc \in {"send", "stamp"} /\ UNCHANGED <<letters, stamped, announced>>
        /\ batch' = [batch EXCEPT ![b].alive = FALSE]
    BY <1>6 DEF LeaveBatch
  <2>2. /\ BatchFields' /\ \A x \in Batches : x # b => batch'[x] = batch[x]
        /\ batch'[b].pc = batch[b].pc /\ batch'[b].todo = batch[b].todo
        /\ batch'[b].to = batch[b].to /\ batch'[b].body = batch[b].body
        /\ batch'[b].sent = batch[b].sent /\ batch'[b].alive = FALSE
    <3> DEFINE row == [batch[b] EXCEPT !.alive = FALSE]
    <3>1. batch' = [batch EXCEPT ![b] = row]
      BY <1>0, <2>1 DEF BatchFields
    <3>2. /\ HasFields(row) /\ row.pc = batch[b].pc /\ row.todo = batch[b].todo
          /\ row.to = batch[b].to /\ row.body = batch[b].body
          /\ row.sent = batch[b].sent /\ row.alive = FALSE
      BY <1>0 DEF BatchFields, HasFields
    <3> HIDE DEF row
    <3> QED
      BY <1>0, <3>1, <3>2, BatchWritten
  <2>3. BatchOK(b)'
    BY <1>0, <2>1, <2>2, ZenonT(30) DEF BatchOK, Sending, Taken
  <2> QED
    BY <2>1, <2>2, <2>3, OneBatch
<1> QED
  BY <1>3, <1>4, <1>5, <1>6

\* Every step keeps the batches, a restart in the middle of one included.
LEMMA MailingsStep == RegsInv /\ MailingsInv /\ [WorkshopNext]_workshopVars => MailingsInv'
<1> SUFFICES ASSUME RegsInv, MailingsInv, [WorkshopNext]_workshopVars PROVE MailingsInv'
  OBVIOUS
<1>1. ASSUME NEW b \in Batches,
             \/ \E asked \in Asked, body \in Bodies : StartBatch(b, asked, body)
             \/ LoadRecipient(b) \/ MergeBatch(b)
      PROVE  MailingsInv'
  BY <1>1, BatchPrepared
<1>2. ASSUME NEW b \in Batches,
             SendLetter(b) \/ StampRow(b) \/ FinishBatch(b) \/ LeaveBatch(b)
      PROVE  MailingsInv'
  BY <1>2, BatchSent
<1>3. CASE RestartWorkshop
  <2>0. BatchFields
    BY DEF MailingsInv
  <2>1. /\ batch' = [b \in Batches |-> IF batch[b].pc = "idle" THEN batch[b]
                                       ELSE [batch[b] EXCEPT !.pc = "done"]]
        /\ UNCHANGED <<letters, stamped, announced>>
    BY <1>3 DEF RestartWorkshop
  <2>2. ASSUME NEW b \in Batches
        PROVE  /\ HasFields(batch'[b])
               /\ batch'[b].pc = IF batch[b].pc = "idle" THEN "idle" ELSE "done"
               /\ batch'[b].to = batch[b].to /\ batch'[b].body = batch[b].body
               /\ batch'[b].sent = batch[b].sent /\ batch'[b].alive = batch[b].alive
    BY <2>0, <2>1 DEF BatchFields, HasFields
  <2>3. BatchFields'
    BY <2>1, <2>2 DEF BatchFields
  <2>4. ASSUME NEW b \in Batches
        PROVE  BatchOK(b)'
    <3>1. BatchOK(b)
      BY DEF MailingsInv
    <3> QED
      BY <2>1, <2>2, <3>1 DEF BatchOK, Sending, Taken
  <2> QED
    BY <2>1, <2>2, <2>3, <2>4 DEF MailingsInv, LetterOnce
<1>4. CASE \/ \E e \in Emails, consent \in BOOLEAN : Register(e, consent)
           \/ \E m \in replies : ConfirmRegistration(m)
           \/ \E d \in AdminEdits : \/ \E i \in DOMAIN regs : ReadRegistration(d, i)
                                    \/ \E e \in Emails, n \in BOOLEAN : WriteRegistration(d, e, n)
           \/ \E c \in Coupons : (\E i \in 0..Len(regs) : IssueCoupon(c, i)) \/ ExpireCoupon(c)
           \/ \E x \in Redeems, c \in Coupons, e \in Emails : RedeemCoupon(x, c, e)
           \/ UNCHANGED workshopVars
  <2>1. UNCHANGED <<batch, letters, stamped, announced>>
    BY <1>4 DEF Register, ConfirmRegistration, ReadRegistration, WriteRegistration, IssueCoupon,
        ExpireCoupon, RedeemCoupon, workshopVars
  <2> QED
    BY <2>1 DEF MailingsInv, BatchFields, BatchOK, Sending, Taken, LetterOnce
<1> QED
  BY <1>1, <1>2, <1>3, <1>4 DEF WorkshopNext
-----------------------------------------------------------------------------
\* The invariant of the workshop.
LEMMA WorkshopInvariant == WorkshopSpec => []WorkshopInv
<1>1. WorkshopInit => WorkshopInv
  <2> SUFFICES ASSUME WorkshopInit PROVE WorkshopInv
    OBVIOUS
  <2>1. RegsInv
    BY WorkshopAssumption DEF WorkshopInit, RegsInv, NoRow, Row
  <2>2. CouponInv
    BY WorkshopAssumption DEF WorkshopInit, CouponInv, PassesOf, CohortFollowsCoupon
  <2>3. /\ BatchFields /\ \A b \in Batches : BatchOK(b)
    <3> DEFINE row == [pc |-> "idle", body |-> {}, todo |-> <<>>, to |-> <<>>,
                       sent |-> {}, alive |-> TRUE]
    <3>1. HasFields(row) /\ row.pc = "idle" /\ row.to = <<>> /\ row.sent = {} /\ row.alive = TRUE
      BY DEF HasFields
    <3>2. batch = [b \in Batches |-> row] /\ DOMAIN letters = {}
      BY DEF WorkshopInit
    <3> HIDE DEF row
    <3>3. BatchFields
      BY <3>1, <3>2 DEF BatchFields
    <3>4. ASSUME NEW b \in Batches
          PROVE  BatchOK(b)
      <4>1. <<>> \in Seq(Recipients) /\ DOMAIN <<>> = {} /\ batch[b] = row
        BY <3>2
      <4> QED
        BY <3>1, <3>2, <4>1 DEF BatchOK, Sending, Taken, EachOnce
    <3> QED
      BY <3>3, <3>4
  <2>4. MailingsInv
    BY <2>3 DEF WorkshopInit, MailingsInv, LetterOnce
  <2> QED
    BY <2>1, <2>2, <2>4 DEF WorkshopInv
<1>2. WorkshopInv /\ [WorkshopNext]_workshopVars => WorkshopInv'
  BY RegsStep, CouponStep, MailingsStep DEF WorkshopInv
<1> QED
  BY <1>1, <1>2, PTL DEF WorkshopSpec

\* It is what the rows are typed by.
LEMMA WorkshopTyped == WorkshopInv => WorkshopTypeOK
<1> SUFFICES ASSUME WorkshopInv PROVE WorkshopTypeOK
  OBVIOUS
<1>1. \A d \in AdminEdits : edits[d].pc \in {"idle", "read", "done"} /\ edits[d].id \in 0..MaxRegs
  BY DEF WorkshopInv, RegsInv
<1>2. \A b \in Batches : /\ batch[b].pc \in {"idle", "load", "send", "stamp", "done"}
                         /\ batch[b].alive \in BOOLEAN
  BY DEF WorkshopInv, MailingsInv, BatchOK
<1>3. stamped \subseteq Ids /\ misfiled \subseteq Ids
  BY DEF WorkshopInv, MailingsInv, RegsInv
<1> QED
  BY <1>1, <1>2, <1>3 DEF WorkshopTypeOK, WorkshopInv, RegsInv, CouponInv, MailingsInv

(***************************************************************************)
(* A coupon makes one pass at most, its count is the passes made with it,  *)
(* and the cohort of their clients is that of the registration it is       *)
(* attributed to, whoever redeems it and whatever is registered, edited    *)
(* and expired meanwhile (fulfillPass, handleAdminCreateCoupon).           *)
(***************************************************************************)
THEOREM CouponsAreSafe == WorkshopSpec => []CouponsSafe
<1>1. WorkshopInv => CouponsSafe
  BY WorkshopTyped, SpentOnce DEF WorkshopInv, CouponInv, CouponsSafe
<1> QED
  BY <1>1, WorkshopInvariant, PTL

(***************************************************************************)
(* However many announcements are sent at once, for whatever ids, and      *)
(* wherever the process stops: nobody gets a letter of one batch twice, a  *)
(* batch that would leave a hole in one letter sends none, and the logs    *)
(* name who was sent one (handleAdminSendAnnouncement).                    *)
(***************************************************************************)
THEOREM MailingsAreSafe == WorkshopSpec => []MailingsSafe
<1>1. WorkshopInv => MailingsSafe
  <2> SUFFICES ASSUME WorkshopInv PROVE MailingsSafe
    OBVIOUS
  <2>1. FirstMailRefers
    BY DEF WorkshopInv, RegsInv, FirstMailRefers
  <2>2. ASSUME NEW k \in DOMAIN letters
        PROVE  LET b == letters[k][1] IN
                 \A n \in DOMAIN batch[b].to : ~ HasHole(batch[b].body, batch[b].to[n])
    <3>1. letters[k] \in Batches \X Ids
      BY DEF WorkshopInv, MailingsInv
    <3>2. PICK b \in Batches, i \in Ids : letters[k] = <<b, i>>
      BY <3>1
    <3>3. BatchOK(b) /\ Taken(b, i)
      BY <3>2 DEF WorkshopInv, MailingsInv, Taken
    <3>4. batch[b].sent # {}
      BY <3>3 DEF BatchOK
    <3>5. \A n \in DOMAIN batch[b].to : ~ HasHole(batch[b].body, batch[b].to[n])
      BY <3>3, <3>4 DEF BatchOK
    <3>6. letters[k][1] = b
      BY <3>2
    <3> QED
      BY <3>5, <3>6
  <2>3. NoHalfBatch
    BY <2>2 DEF NoHalfBatch
  <2>4. ASSUME NEW a \in announced
        PROVE  a.ids = {i \in Ids : \E k \in DOMAIN letters : letters[k] = <<a.batch, i>>}
    <3>1. PICK b \in Batches : b = a.batch
      BY DEF WorkshopInv, MailingsInv
    <3>2. a.ids = batch[b].sent /\ BatchOK(b)
      BY <3>1 DEF WorkshopInv, MailingsInv
    <3> QED
      BY <3>1, <3>2 DEF BatchOK, Taken
  <2>5. LogIsTrue
    BY <2>4 DEF WorkshopInv, MailingsInv, LogIsTrue
  <2> QED
    BY <2>1, <2>3, <2>5 DEF WorkshopInv, MailingsInv, MailingsSafe
<1> QED
  BY <1>1, WorkshopInvariant, PTL
-----------------------------------------------------------------------------
(* The notifier.                                                           *)

NoticesTyped ==
  /\ tick \in Nat /\ tick <= MaxTicks
  /\ sending \subseteq Notice /\ unanswered \subseteq Notice
  /\ lastSent = [p \in DOMAIN lastSent |-> lastSent[p]]
  /\ \A p \in DOMAIN lastSent : lastSent[p] \in Nat
  /\ \A n \in reported \cup sending \cup unanswered : n.at \in Nat /\ n.at <= tick

\* A mail on its way is younger than the throttle; a project's entry, if it has
\* one, is at least as late as all its notices on their way and answered, and
\* without one they are all older than the throttle: so clearing the entry when
\* the call to the provider fails lets the next save through and no other.
NoticesInv ==
  /\ NoticesTyped
  /\ NotifiedApart
  /\ reported \cap sending = {}
  /\ \A n \in sending : tick < n.at + NotifyGap
  /\ \A n \in reported \cup sending :
       IF n.project \in DOMAIN lastSent THEN n.at <= lastSent[n.project]
       ELSE n.at + NotifyGap <= tick

\* A project's save that is not throttled comes a throttle after the last.
LEMMA NotifyStep ==
  ASSUME NoticesInv, NEW p \in Notified, MaybeNotify(p)
  PROVE  NoticesInv'
<1>0. NotifyGap \in Nat \ {0} /\ tick \in Nat
  BY ThrottleAssumption DEF NoticesInv, NoticesTyped
<1> DEFINE new == [project |-> p, at |-> tick]
<1>1. /\ sending' = sending \cup {new} /\ UNCHANGED <<tick, reported, unanswered>>
      /\ lastSent' = [q \in DOMAIN lastSent \cup {p} |-> IF q = p THEN tick ELSE lastSent[q]]
      /\ p \in DOMAIN lastSent => tick >= lastSent[p] + NotifyGap
  BY <1>0 DEF MaybeNotify, Put, Throttled, NoticesInv, NoticesTyped
<1>2. new.project = p /\ new.at = tick
  OBVIOUS
<1>a. unanswered \subseteq Notice
  BY DEF NoticesInv, NoticesTyped
<1>b. \A n \in unanswered : n.project = p /\ tick <= n.at => n = new
  <2> TAKE n \in unanswered
  <2> HAVE n.project = p /\ tick <= n.at
  <2>1. n.at = tick
    BY <1>0 DEF NoticesInv, NoticesTyped
  <2>2. n = [project |-> n.project, at |-> n.at]
    BY <1>a DEF Notice
  <2> QED
    BY <2>1, <2>2
<1> HIDE DEF new
<1>3. ASSUME NEW n \in reported \cup sending
      PROVE  /\ n.at \in Nat /\ n.at <= tick
             /\ n.project = p => n.at + NotifyGap <= tick
  <2>1. n.at \in Nat /\ n.at <= tick
    BY DEF NoticesInv, NoticesTyped
  <2>2. CASE n.project = p /\ p \in DOMAIN lastSent
    <3>1. n.at <= lastSent[p] /\ lastSent[p] \in Nat /\ tick >= lastSent[p] + NotifyGap
      BY <1>1, <2>2 DEF NoticesInv, NoticesTyped
    <3> QED
      BY <1>0, <2>1, <3>1
  <2>3. CASE n.project = p /\ p \notin DOMAIN lastSent
    BY <2>1, <2>3 DEF NoticesInv
  <2> QED
    BY <2>1, <2>2, <2>3
<1>4. NoticesTyped'
  <2>1. new \in Notice
    BY <1>0, ThrottleAssumption DEF NoticesInv, NoticesTyped, Notice, new
  <2>2. /\ lastSent' = [q \in DOMAIN lastSent' |-> lastSent'[q]]
        /\ \A q \in DOMAIN lastSent' : lastSent'[q] \in Nat
    BY <1>0, <1>1 DEF NoticesInv, NoticesTyped
  <2> QED
    BY <1>0, <1>1, <1>2, <1>3, <1>a, <2>1, <2>2 DEF NoticesInv, NoticesTyped
<1>5. NotifiedApart'
  <2> SUFFICES ASSUME NEW m \in reported \cup sending',
                      NEW n \in reported \cup sending' \cup unanswered,
                      m.project = n.project, m.at <= n.at, m # n
               PROVE  n.at >= m.at + NotifyGap
    BY <1>1 DEF NotifiedApart
  <2>1. CASE m \in reported \cup sending /\ n \in reported \cup sending \cup unanswered
    BY <2>1 DEF NoticesInv, NotifiedApart
  <2>2. CASE m \in reported \cup sending /\ n = new
    BY <1>2, <1>3, <2>2
  <2>3. CASE m = new /\ n \in reported \cup sending
    BY <1>0, <1>2, <1>3, <2>3
  <2>4. CASE m = new /\ n \in unanswered
    BY <1>b, <1>2, <2>4
  <2> QED
    BY <1>1, <2>1, <2>2, <2>3, <2>4
<1>6. \A n \in sending' : tick < n.at + NotifyGap
  BY <1>0, <1>1, <1>2 DEF NoticesInv
<1>7. ASSUME NEW n \in reported \cup sending'
      PROVE  IF n.project \in DOMAIN lastSent' THEN n.at <= lastSent'[n.project]
             ELSE n.at + NotifyGap <= tick
  <2>1. CASE n = new
    BY <1>0, <1>1, <1>2, <2>1
  <2>2. CASE n \in reported \cup sending /\ n.project = p
    BY <1>1, <1>3, <2>2
  <2>3. CASE n \in reported \cup sending /\ n.project # p
    BY <1>1, <2>3 DEF NoticesInv
  <2> QED
    BY <1>1, <2>1, <2>2, <2>3
<1>8. reported \cap sending' = {}
  BY <1>0, <1>1, <1>2, <1>3 DEF NoticesInv
<1> QED
  BY <1>1, <1>4, <1>5, <1>6, <1>7, <1>8 DEF NoticesInv

\* A mail that is taken, not written, refused or taken without an answer: the
\* others of its project are older by a throttle, for two on their way at once
\* would be as far apart and both younger.
LEMMA SendNoticeStep ==
  ASSUME NoticesInv, NEW n \in sending, SendNotice(n)
  PROVE  NoticesInv'
<1>0. NotifyGap \in Nat \ {0} /\ tick \in Nat /\ n.at \in Nat /\ n.at <= tick /\ n \in Notice
       /\ tick <= MaxTicks
  BY ThrottleAssumption DEF NoticesInv, NoticesTyped
<1>1. /\ sending' = sending \ {n} /\ tick' = tick
      /\ unanswered' \subseteq unanswered \cup {n}
      /\ \/ reported' = reported \cup {n} /\ lastSent' = lastSent
         \/ UNCHANGED <<reported, lastSent>>
         \/ /\ lastSent' = [p \in DOMAIN lastSent \ {n.project} |-> lastSent[p]]
            /\ reported' = reported
  BY DEF SendNotice, Cleared
<1>2. /\ reported' \cup sending' \subseteq reported \cup sending
      /\ reported' \cup sending' \cup unanswered' \subseteq reported \cup sending \cup unanswered
  BY <1>1
<1>3. \A m \in reported \cup sending \cup unanswered : m.at \in Nat /\ m.at <= tick
  BY DEF NoticesInv, NoticesTyped
<1>4. NoticesTyped'
  <2>1. sending' \subseteq Notice /\ unanswered' \subseteq Notice
    BY <1>0, <1>1 DEF NoticesInv, NoticesTyped
  <2>2. /\ lastSent' = [p \in DOMAIN lastSent' |-> lastSent'[p]]
        /\ \A p \in DOMAIN lastSent' : lastSent'[p] \in Nat
    BY <1>1 DEF NoticesInv, NoticesTyped
  <2> QED
    BY <1>0, <1>1, <1>2, <1>3, <2>1, <2>2 DEF NoticesTyped
<1>5. NotifiedApart'
  BY <1>2 DEF NoticesInv, NotifiedApart
<1>6. \A m \in sending' : tick < m.at + NotifyGap
  BY <1>1 DEF NoticesInv
<1>7. ASSUME NEW m \in reported \cup sending, m # n, m.project = n.project
      PROVE  m.at + NotifyGap <= tick
  <2>1. tick < n.at + NotifyGap
    BY DEF NoticesInv
  <2>2. CASE m.at <= n.at
    <3>1. n.at >= m.at + NotifyGap
      BY <1>7, <2>2 DEF NoticesInv, NotifiedApart
    <3> QED
      BY <1>0, <1>3, <3>1
  <2>3. CASE n.at <= m.at
    <3>1. m.at >= n.at + NotifyGap
      BY <1>7, <2>3 DEF NoticesInv, NotifiedApart
    <3> QED
      BY <1>0, <1>3, <2>1, <3>1
  <2> QED
    BY <1>0, <1>3, <2>2, <2>3
<1>8. ASSUME NEW m \in reported' \cup sending'
      PROVE  IF m.project \in DOMAIN lastSent' THEN m.at <= lastSent'[m.project]
             ELSE m.at + NotifyGap <= tick
  <2>1. CASE lastSent' = lastSent
    BY <1>2, <2>1 DEF NoticesInv
  <2>2. CASE /\ lastSent' = [p \in DOMAIN lastSent \ {n.project} |-> lastSent[p]]
             /\ reported' = reported
    <3>1. CASE m.project = n.project /\ m # n
      BY <1>2, <1>7, <2>2, <3>1
    <3>2. CASE m = n
      <4>1. n \notin reported' \cup sending'
        BY <1>1, <2>2 DEF NoticesInv
      <4> QED
        BY <3>2, <4>1
    <3>3. CASE m.project # n.project
      BY <1>2, <2>2, <3>3 DEF NoticesInv
    <3> QED
      BY <3>1, <3>2, <3>3
  <2> QED
    BY <1>1, <2>1, <2>2
<1>9. reported' \cap sending' = {}
  BY <1>1 DEF NoticesInv
<1> QED
  BY <1>1, <1>4, <1>5, <1>6, <1>8, <1>9 DEF NoticesInv

(***************************************************************************)
(* "At most one notification per project per 30 minutes": for any number   *)
(* of saves, projects and failing mails, no notice of a project goes out   *)
(* within a throttle of one that was answered or is on its way. After one  *)
(* taken without an answer it may (transmittal_notify.go).                 *)
(***************************************************************************)
THEOREM NotificationsApart == ThrottleSpec => []NotifiedApart
<1>1. ThrottleInit => NoticesInv
  BY ThrottleAssumption DEF ThrottleInit, NoticesInv, NoticesTyped, NotifiedApart
<1>2. NoticesInv /\ [ThrottleNext]_throttleVars => NoticesInv'
  <2> SUFFICES ASSUME NoticesInv, [ThrottleNext]_throttleVars PROVE NoticesInv'
    OBVIOUS
  <2>1. CASE ThrottleTick
    <3>0. NotifyGap \in Nat \ {0} /\ tick \in Nat
      BY ThrottleAssumption DEF NoticesInv, NoticesTyped
    <3>1. /\ tick' = tick + 1 /\ tick < MaxTicks /\ MaxTicks \in Nat
          /\ UNCHANGED <<lastSent, sending, reported, unanswered>>
          /\ \A n \in sending : tick + 1 < n.at + NotifyGap
      BY <2>1, ThrottleAssumption DEF ThrottleTick
    <3>2. \A n \in reported \cup sending \cup unanswered : n.at \in Nat /\ n.at <= tick
      BY DEF NoticesInv, NoticesTyped
    <3>3. \A n \in reported \cup sending : n.at + NotifyGap <= tick => n.at + NotifyGap <= tick + 1
      BY <3>0, <3>2
    <3>4. NoticesTyped'
      BY <3>0, <3>1, <3>2 DEF NoticesInv, NoticesTyped
    <3> QED
      BY <3>1, <3>3, <3>4 DEF NoticesInv, NotifiedApart
  <2>2. CASE \E p \in Notified : MaybeNotify(p)
    BY <2>2, NotifyStep
  <2>3. CASE \E n \in sending : SendNotice(n)
    BY <2>3, SendNoticeStep
  <2>4. CASE \/ \E c \in Callers : (\E ask \in Asks : Arrive(c, ask)) \/ AskLimiter(c)
             \/ UNCHANGED throttleVars
    <3>1. UNCHANGED <<tick, lastSent, sending, reported, unanswered>>
      BY <2>4 DEF Arrive, AskLimiter, throttleVars
    <3> QED
      BY <3>1 DEF NoticesInv, NoticesTyped, NotifiedApart
  <2> QED
    BY <2>1, <2>2, <2>3, <2>4 DEF ThrottleNext, LimiterNext, NotifierNext
<1>3. NoticesInv => NotifiedApart
  BY DEF NoticesInv
<1> QED
  BY <1>1, <1>2, <1>3, PTL DEF ThrottleSpec

-----------------------------------------------------------------------------
(* The limiters.                                                           *)

\* What somebody may have forgotten stays forgettable, and a key's own window
\* is one of those it may be forgotten by.
LEMMA PastLater ==
  ASSUME NEW k \in Keys, NEW x \in Nat, NEW t \in Nat, NEW u \in Nat, t <= u, Past(k, x, t)
  PROVE  Past(k, x, u)
<1>1. \A j \in Pruners(k) : Span[j] \in Nat
  BY ThrottleAssumption DEF Pruners, Keys
<1> QED
  BY <1>1 DEF Past

LEMMA PastOwn ==
  ASSUME NEW k \in Keys, NEW x \in Nat, NEW t \in Nat, x + Span[k] <= t
  PROVE  Past(k, x, t)
<1>1. k \in Pruners(k) /\ Span[k] \in Nat
  BY ThrottleAssumption DEF Pruners, Keys
<1> QED
  BY <1>1 DEF Past

\* What the map and the history say of one key, now being t: its list h is of
\* hits in the order of time, none later than its last call c. The list is the
\* end of what was admitted, all before it may be forgotten, and nothing was
\* admitted beyond the limit before the oldest of them might be.
KeyOK(k, h, a, c, t) ==
  /\ h \in Seq(Nat) /\ a \in Seq(Nat) /\ c \in Nat /\ t \in Nat /\ c <= t
  /\ Len(h) <= Limit[k]
  /\ \A i \in 1..Len(h) : h[i] <= c
  /\ \A i, j \in 1..Len(h) : i <= j => h[i] <= h[j]
  /\ \A i \in 1..Len(a) : a[i] <= t
  /\ Len(h) <= Len(a)
  /\ \A i \in 1..Len(h) : h[i] = a[Len(a) - Len(h) + i]
  /\ \A i \in 1..(Len(a) - Len(h)) : Past(k, a[i], t)
  /\ \A i \in 1..Len(a) : i + Limit[k] <= Len(a) => Past(k, a[i], a[i + Limit[k]])

LimitersInv ==
  /\ tick \in 0..MaxTicks
  /\ hits = [k \in Keys |-> hits[k]] /\ admitted = [k \in Keys |-> admitted[k]]
  /\ called \in [Keys -> Nat] /\ caller \in [Callers -> Seq(Keys)]
  /\ \A k \in Keys : KeyOK(k, hits[k], admitted[k], called[k], tick)
  /\ MapForgets

\* Time goes by.
LEMMA KeyLater ==
  ASSUME NEW k \in Keys, NEW h, NEW a, NEW c, NEW t, KeyOK(k, h, a, c, t)
  PROVE  KeyOK(k, h, a, c, t + 1)
<1>2. /\ h \in Seq(Nat) /\ a \in Seq(Nat) /\ c \in Nat /\ t \in Nat /\ c <= t
      /\ Len(h) \in Nat /\ Len(a) \in Nat
  BY LenProperties DEF KeyOK
<1>3. \A i \in 1..Len(a) : a[i] \in Nat
  BY <1>2, LenProperties
<1>4. \A i \in 1..Len(a) : a[i] <= t + 1
  BY <1>2, <1>3 DEF KeyOK
<1>6. t + 1 \in Nat /\ c <= t + 1 /\ t <= t + 1
  BY <1>2
<1>5. ASSUME NEW i \in 1..(Len(a) - Len(h)) PROVE Past(k, a[i], t + 1)
  <2>1. Past(k, a[i], t) /\ i \in 1..Len(a)
    BY <1>2 DEF KeyOK
  <2> QED
    BY <1>2, <1>3, <1>6, <2>1, PastLater
<1>7. /\ Len(h) <= Limit[k]
      /\ \A i \in 1..Len(h) : h[i] <= c
      /\ \A i, j \in 1..Len(h) : i <= j => h[i] <= h[j]
  BY DEF KeyOK
<1>8. /\ Len(h) <= Len(a)
      /\ \A i \in 1..Len(h) : h[i] = a[Len(a) - Len(h) + i]
      /\ \A i \in 1..Len(a) : i + Limit[k] <= Len(a) => Past(k, a[i], a[i + Limit[k]])
  BY DEF KeyOK
<1> QED
  BY <1>2, <1>4, <1>5, <1>6, <1>7, <1>8 DEF KeyOK

\* The list after the hits outside the window have been left out.
LEMMA FreshKept ==
  ASSUME NEW k \in Keys, NEW a, NEW c, KeyOK(k, hits[k], a, c, tick)
  PROVE  KeyOK(k, Fresh(k), a, c, tick)
<1> DEFINE h == hits[k]
           n == Len(hits[k])
           after == {i \in DOMAIN hits[k] : hits[k][i] + Span[k] > tick}
           m == Min(after \cup {n + 1})
           f == SubSeq(h, m, n)
<1>1. Limit[k] \in Nat /\ Span[k] \in Nat
  BY ThrottleAssumption
<1>2. /\ h \in Seq(Nat) /\ a \in Seq(Nat) /\ n \in Nat /\ Len(a) \in Nat /\ DOMAIN h = 1..n /\ tick \in Nat
      /\ \A i \in 1..n : h[i] \in Nat
  BY LenProperties DEF KeyOK
<1>3. m \in after \cup {n + 1} /\ \A i \in after \cup {n + 1} : m <= i
  <2>1. (after \cup {n + 1}) \in SUBSET Nat
    BY <1>2
  <2> DEFINE S == after \cup {n + 1}
  <2>2. S # {}
    OBVIOUS
  <2> HIDE DEF S
  <2>3. \E x \in S : \A y \in S : x <= y
    BY <2>1, <2>2, LeastNatural DEF S
  <2>4. Min(S) \in S /\ \A y \in S : Min(S) <= y
    BY <2>3 DEF Min
  <2> QED
    BY <2>4 DEF S
<1>4. m \in 1..(n + 1)
  BY <1>2, <1>3
<1>5. \A i \in 1..(m - 1) : h[i] + Span[k] <= tick /\ i \in 1..n
  <2> TAKE i \in 1..(m - 1)
  <2>1. i \in 1..n /\ ~ (m <= i)
    BY <1>2, <1>4
  <2>2. i \notin after
    BY <1>3, <2>1
  <2> HIDE DEF m
  <2> QED
    BY <1>1, <1>2, <2>1, <2>2
<1> HIDE DEF m
<1>6. /\ f \in Seq(Nat) /\ Len(f) = n - m + 1
      /\ \A i \in 1..(n - m + 1) : f[i] = h[m + i - 1]
  <2>1. \A i \in m..n : h[i] \in Nat
    BY <1>2, <1>4
  <2>2. m \in Int /\ n \in Int
    BY <1>2, <1>4
  <2> QED
    BY <1>2, <1>4, <2>1, <2>2, SubSeqProperties, SMTT(30)
<1>7. Fresh(k) = f
  BY DEF Fresh, m
<1> HIDE DEF f, h, n
<1>8. /\ n <= Limit[k] /\ \A i \in 1..n : h[i] <= c
      /\ \A i, j \in 1..n : i <= j => h[i] <= h[j]
      /\ \A i \in 1..Len(a) : a[i] <= tick
      /\ c \in Nat /\ c <= tick
      /\ n <= Len(a)
      /\ \A i \in 1..n : h[i] = a[Len(a) - n + i]
      /\ \A i \in 1..(Len(a) - n) : Past(k, a[i], tick)
      /\ \A i \in 1..Len(a) : i + Limit[k] <= Len(a) => Past(k, a[i], a[i + Limit[k]])
  BY DEF KeyOK, h, n
<1>9. \A i \in 1..(n - m + 1) : m + i - 1 \in 1..n /\ f[i] = h[m + i - 1]
  BY <1>2, <1>4, <1>6
<1>10. \A i \in 1..Len(f) : f[i] <= c
  BY <1>6, <1>8, <1>9
<1>11. \A i, j \in 1..Len(f) : i <= j => f[i] <= f[j]
  <2> TAKE i, j \in 1..Len(f)
  <2> HAVE i <= j
  <2>1. m + i - 1 \in 1..n /\ m + j - 1 \in 1..n /\ f[i] = h[m + i - 1] /\ f[j] = h[m + j - 1]
    BY <1>6, <1>9
  <2>2. m + i - 1 <= m + j - 1
    BY <1>2, <1>4, <1>6
  <2> QED
    BY <1>8, <2>1, <2>2
<1>12. Len(f) <= Limit[k] /\ Len(f) <= n
  BY <1>1, <1>2, <1>4, <1>6, <1>8
<1>13. /\ Len(f) <= Len(a)
       /\ \A i \in 1..Len(f) : f[i] = a[Len(a) - Len(f) + i]
       /\ \A i \in 1..(Len(a) - Len(f)) : Past(k, a[i], tick)
  <2>1. Len(f) <= Len(a)
    BY <1>2, <1>4, <1>6, <1>8
  <2>2. ASSUME NEW i \in 1..Len(f) PROVE f[i] = a[Len(a) - Len(f) + i]
    <3>1. m + i - 1 \in 1..n /\ f[i] = h[m + i - 1]
      BY <1>6, <1>9
    <3>2. h[m + i - 1] = a[Len(a) - n + (m + i - 1)]
      BY <1>8, <3>1
    <3>3. Len(a) - n + (m + i - 1) = Len(a) - Len(f) + i
      BY <1>2, <1>4, <1>6
    <3> QED
      BY <3>1, <3>2, <3>3
  <2>3. ASSUME NEW i \in 1..(Len(a) - Len(f)) PROVE Past(k, a[i], tick)
    <3>1. CASE i <= Len(a) - n
      <4>1. i \in 1..(Len(a) - n)
        BY <1>2, <1>4, <1>6, <3>1
      <4> QED
        BY <1>8, <4>1
    <3>2. CASE i > Len(a) - n
      <4> DEFINE b == i - (Len(a) - n)
      <4>1. b \in 1..(m - 1) /\ Len(a) - n + b = i
        BY <1>2, <1>4, <1>6, <1>8, <3>2
      <4>2. h[b] + Span[k] <= tick /\ b \in 1..n
        BY <1>5, <4>1
      <4>3. h[b] = a[Len(a) - n + b]
        BY <1>8, <4>2
      <4> HIDE DEF b
      <4>4. a[i] \in Nat /\ a[i] + Span[k] <= tick
        BY <1>2, <4>1, <4>2, <4>3
      <4> QED
        BY <1>2, <4>4, PastOwn
    <3> QED
      BY <1>2, <1>6, <3>1, <3>2
  <2> QED
    BY <2>1, <2>2, <2>3
<1>14. KeyOK(k, f, a, c, tick)
  BY <1>2, <1>6, <1>8, <1>10, <1>11, <1>12, <1>13 DEF KeyOK
<1> QED
  BY <1>7, <1>14

\* A call that is refused, or leaves the list as it is.
LEMMA KeyAsked ==
  ASSUME NEW k \in Keys, NEW h, NEW a, NEW c, NEW t, KeyOK(k, h, a, c, t)
  PROVE  KeyOK(k, h, a, t, t)
<1>1. /\ h \in Seq(Nat) /\ c \in Nat /\ t \in Nat /\ c <= t /\ Len(h) \in Nat
      /\ \A i \in 1..Len(h) : h[i] \in Nat /\ h[i] <= c
  BY LenProperties DEF KeyOK
<1>2. t <= t /\ \A i \in 1..Len(h) : h[i] <= t
  BY <1>1
<1> QED
  BY <1>2 DEF KeyOK

\* A call that is admitted. The admission as many before it as the limit is no
\* longer in the list, so it has left the window.
LEMMA KeyAdmitted ==
  ASSUME NEW k \in Keys, NEW h, NEW a, NEW c, NEW t, KeyOK(k, h, a, c, t), Len(h) < Limit[k]
  PROVE  KeyOK(k, Append(h, t), Append(a, t), t, t)
<1> DEFINE hh == Append(h, t)
           aa == Append(a, t)
           n == Len(h)
           l == Len(a)
<1>1. Limit[k] \in Nat \ {0} /\ Span[k] \in Nat
  BY ThrottleAssumption
<1>2. /\ h \in Seq(Nat) /\ a \in Seq(Nat) /\ c \in Nat /\ t \in Nat /\ c <= t /\ n \in Nat /\ l \in Nat
      /\ \A i \in 1..n : h[i] \in Nat /\ h[i] <= c
      /\ \A i \in 1..l : a[i] \in Nat /\ a[i] <= t
      /\ \A i, j \in 1..n : i <= j => h[i] <= h[j]
  BY LenProperties DEF KeyOK
<1>3. /\ hh \in Seq(Nat) /\ Len(hh) = n + 1 /\ hh[n + 1] = t
      /\ \A i \in 1..n : hh[i] = h[i]
  BY <1>2, AppendProperties
<1>4. /\ aa \in Seq(Nat) /\ Len(aa) = l + 1 /\ aa[l + 1] = t
      /\ \A i \in 1..l : aa[i] = a[i]
  BY <1>2, AppendProperties
<1>5. /\ n <= l
      /\ \A i \in 1..n : h[i] = a[l - n + i]
      /\ \A i \in 1..(l - n) : Past(k, a[i], t)
      /\ \A i \in 1..l : i + Limit[k] <= l => Past(k, a[i], a[i + Limit[k]])
  BY DEF KeyOK
<1>6. Len(h) < Limit[k] /\ n < Limit[k]
  OBVIOUS
<1> HIDE DEF hh, aa, n, l
<1>7. \A i \in 1..(n + 1) : hh[i] <= t
  <2> TAKE i \in 1..(n + 1)
  <2>0. c \in Nat /\ t \in Nat /\ c <= t /\ n \in Nat
    BY <1>2
  <2>1. CASE i = n + 1
    BY <1>3, <2>0, <2>1
  <2>2. CASE i # n + 1
    <3>1. i \in 1..n
      BY <2>0, <2>2
    <3>2. hh[i] = h[i]
      BY <1>3, <3>1
    <3>3. h[i] \in Nat /\ h[i] <= c
      BY <1>2, <3>1
    <3> QED
      BY <2>0, <3>2, <3>3
  <2> QED
    BY <2>1, <2>2
<1>8. \A i, j \in 1..(n + 1) : i <= j => hh[i] <= hh[j]
  <2> TAKE i, j \in 1..(n + 1)
  <2> HAVE i <= j
  <2>1. CASE j = n + 1
    BY <1>3, <1>7, <2>1
  <2>2. CASE j # n + 1
    <3>0. n \in Nat
      BY <1>2
    <3>1. i \in 1..n /\ j \in 1..n
      BY <2>2, <3>0
    <3>2. hh[i] = h[i] /\ hh[j] = h[j]
      BY <1>3, <3>1
    <3>3. h[i] <= h[j]
      BY <1>2, <3>1
    <3> QED
      BY <3>2, <3>3
  <2> QED
    BY <2>1, <2>2
<1>9. \A i \in 1..(l + 1) : aa[i] <= t
  <2> TAKE i \in 1..(l + 1)
  <2>0. t \in Nat /\ l \in Nat
    BY <1>2
  <2>1. CASE i = l + 1
    BY <1>4, <2>0, <2>1
  <2>2. CASE i # l + 1
    <3>1. i \in 1..l
      BY <2>0, <2>2
    <3>2. aa[i] = a[i]
      BY <1>4, <3>1
    <3>3. a[i] \in Nat /\ a[i] <= t
      BY <1>2, <3>1
    <3> QED
      BY <2>0, <3>2, <3>3
  <2> QED
    BY <2>1, <2>2
<1>10. /\ n + 1 <= l + 1
       /\ \A i \in 1..(n + 1) : hh[i] = aa[(l + 1) - (n + 1) + i]
       /\ \A i \in 1..((l + 1) - (n + 1)) : Past(k, aa[i], t)
       /\ \A i \in 1..(l + 1) : i + Limit[k] <= l + 1 => Past(k, aa[i], aa[i + Limit[k]])
  <2>1. n <= l
    BY <1>5
  <2>2. ASSUME NEW i \in 1..(n + 1) PROVE hh[i] = aa[(l + 1) - (n + 1) + i]
    <3>1. CASE i = n + 1
      <4>1. (l + 1) - (n + 1) + i = l + 1
        BY <1>2, <3>1
      <4> QED
        BY <1>3, <1>4, <3>1, <4>1
    <3>2. CASE i # n + 1
      <4>1. i \in 1..n /\ (l + 1) - (n + 1) + i = l - n + i /\ l - n + i \in 1..l
        BY <1>2, <2>1, <3>2
      <4>2. h[i] = a[l - n + i]
        BY <1>5, <4>1
      <4> QED
        BY <1>3, <1>4, <4>1, <4>2
    <3> QED
      BY <3>1, <3>2
  <2>3. ASSUME NEW i \in 1..((l + 1) - (n + 1)) PROVE Past(k, aa[i], t)
    <3>1. i \in 1..(l - n) /\ i \in 1..l
      BY <1>2, <2>1
    <3>2. Past(k, a[i], t)
      BY <1>5, <3>1
    <3> QED
      BY <1>4, <3>1, <3>2
  <2>4. ASSUME NEW i \in 1..(l + 1), i + Limit[k] <= l + 1
        PROVE  Past(k, aa[i], aa[i + Limit[k]])
    <3>1. i \in 1..l /\ i + Limit[k] \in 1..(l + 1)
      BY <1>1, <1>2, <2>4
    <3>2. CASE i + Limit[k] = l + 1
      <4>1. i \in 1..(l - n)
        BY <1>1, <1>2, <1>6, <2>1, <3>1, <3>2
      <4>2. Past(k, a[i], t)
        BY <1>5, <4>1
      <4> QED
        BY <1>1, <1>2, <1>4, <3>1, <3>2, <4>2
    <3>3. CASE i + Limit[k] # l + 1
      <4>1. i + Limit[k] \in 1..l
        <5>1. \A x \in 1..(l + 1) : x # l + 1 => x \in 1..l
          BY <1>2
        <5> QED
          BY <3>1, <3>3, <5>1
      <4>2. Past(k, a[i], a[i + Limit[k]])
        BY <1>2, <1>5, <3>1, <4>1
      <4> QED
        BY <1>4, <3>1, <4>1, <4>2
    <3> QED
      BY <3>2, <3>3
  <2> QED
    BY <1>2, <2>1, <2>2, <2>3, <2>4
<1>11. t <= t /\ n + 1 <= Limit[k]
  BY <1>1, <1>2, <1>6
<1>12. KeyOK(k, hh, aa, t, t)
  BY <1>2, <1>3, <1>4, <1>7, <1>8, <1>9, <1>10, <1>11 DEF KeyOK
<1> QED
  BY <1>12 DEF hh, aa

\* A key another caller prunes: nothing in it was still in the caller's window.
LEMMA KeyPruned ==
  ASSUME NEW j \in FormKeys, NEW k \in FormKeys, NEW a, NEW c,
         KeyOK(j, hits[j], a, c, tick), Stale(j, Span[k])
  PROVE  KeyOK(j, <<>>, a, c, tick)
<1> DEFINE h == hits[j]
           n == Len(hits[j])
           l == Len(a)
<1>1. Limit[j] \in Nat /\ Span[j] \in Nat /\ Span[k] \in Nat /\ j \in Keys
  BY ThrottleAssumption DEF Keys
<1>2. /\ h \in Seq(Nat) /\ a \in Seq(Nat) /\ tick \in Nat /\ n \in Nat /\ l \in Nat
      /\ \A i \in 1..n : h[i] \in Nat
      /\ \A i \in 1..l : a[i] \in Nat
      /\ \A i, m \in 1..n : i <= m => h[i] <= h[m]
  BY LenProperties DEF KeyOK
<1>3. /\ n <= l
      /\ \A i \in 1..n : h[i] = a[l - n + i]
      /\ \A i \in 1..(l - n) : Past(j, a[i], tick)
  BY DEF KeyOK
<1>4. h = <<>> \/ Last(h) + Span[k] < tick
  BY DEF Stale
<1>5. n = 0 \/ (n \in 1..n /\ h[n] + Span[k] < tick)
  <2>1. h = <<>> => n = 0
    OBVIOUS
  <2>2. Last(h) = h[n]
    BY DEF Last
  <2> QED
    BY <1>2, <1>4, <2>1, <2>2
<1> HIDE DEF h, n, l
<1>6. ASSUME NEW i \in 1..l PROVE Past(j, a[i], tick)
  <2>1. CASE i <= l - n
    <3>1. i \in 1..(l - n)
      BY <1>2, <2>1
    <3> QED
      BY <1>3, <3>1
  <2>2. CASE i > l - n
    <3> DEFINE b == i - (l - n)
    <3>1. b \in 1..n /\ l - n + b = i
      BY <1>2, <1>3, <2>2
    <3> HIDE DEF b
    <3>2. h[b] = a[i]
      BY <1>3, <3>1
    <3>3. n \in 1..n /\ b <= n /\ h[n] + Span[k] < tick
      BY <1>2, <1>5, <3>1
    <3>4. h[b] <= h[n] /\ h[b] \in Nat /\ h[n] \in Nat
      BY <1>2, <3>1, <3>3
    <3>5. tick >= a[i] + Span[k]
      BY <1>1, <1>2, <3>2, <3>3, <3>4, SMTT(30)
    <3>6. k \in Pruners(j)
      BY ThrottleAssumption DEF Pruners
    <3> QED
      BY <3>5, <3>6 DEF Past
  <2> QED
    BY <1>2, <2>1, <2>2
<1>7. PICK e \in Seq(Nat) : e = <<>> /\ Len(e) = 0
  <2>1. <<>> \in Seq(Nat) /\ Len(<<>>) = 0
    OBVIOUS
  <2> QED
    BY <2>1, Zenon
<1>8. /\ a \in Seq(Nat) /\ c \in Nat /\ tick \in Nat /\ c <= tick
      /\ \A i \in 1..Len(a) : a[i] <= tick
      /\ \A i \in 1..Len(a) : i + Limit[j] <= Len(a) => Past(j, a[i], a[i + Limit[j]])
  BY DEF KeyOK
<1>9. Len(a) \in Nat /\ Len(e) <= Limit[j] /\ Len(e) <= Len(a) /\ Len(a) - Len(e) = Len(a)
  BY <1>1, <1>2, <1>7 DEF l
<1>10. \A i \in 1..Len(e) : FALSE
  BY <1>7
<1>11. \A i \in 1..(Len(a) - Len(e)) : Past(j, a[i], tick)
  BY <1>6, <1>9 DEF l
<1>12. KeyOK(j, e, a, c, tick)
  BY <1>7, <1>8, <1>9, <1>10, <1>11 DEF KeyOK
<1> QED
  BY <1>7, <1>12

\* One call of a limiter, pruning included.
LEMMA AllowKeeps ==
  ASSUME LimitersInv, NEW k \in Keys, Allow(k), tick' = tick, caller' \in [Callers -> Seq(Keys)]
  PROVE  LimitersInv'
<1> DEFINE kept == IF Admits(k) THEN Append(Fresh(k), tick) ELSE Fresh(k)
<1>0. /\ tick \in Nat /\ called \in [Keys -> Nat] /\ MapForgets
      /\ \A j \in Keys : KeyOK(j, hits[j], admitted[j], called[j], tick)
      /\ \A j \in Keys : Limit[j] \in Nat /\ Span[j] \in Nat \ {0}
  BY ThrottleAssumption DEF LimitersInv
<1>1. hits' = [j \in Keys |-> CASE j = k -> kept [] j \in Pruned(k) -> <<>> [] OTHER -> hits[j]]
  BY DEF Allow
<1> HIDE DEF kept
<1>2. hits'[k] = kept
  <2>1. k \notin Pruned(k)
    BY DEF Pruned
  <2> QED
    BY <1>1, <2>1
<1>3. \A j \in Keys \ {k} : hits'[j] = IF j \in Pruned(k) THEN <<>> ELSE hits[j]
  BY <1>1
<1>4. /\ called' = [called EXCEPT ![k] = tick]
      /\ admitted' = IF Admits(k) THEN [admitted EXCEPT ![k] = Append(@, tick)] ELSE admitted
      /\ admitted = [j \in Keys |-> admitted[j]]
  BY DEF Allow, LimitersInv
<1>5. /\ called'[k] = tick /\ called' \in [Keys -> Nat]
      /\ \A j \in Keys \ {k} : called'[j] = called[j]
  BY <1>0, <1>4
<1>6. /\ admitted'[k] = IF Admits(k) THEN Append(admitted[k], tick) ELSE admitted[k]
      /\ \A j \in Keys \ {k} : admitted'[j] = admitted[j]
      /\ admitted' = [j \in Keys |-> admitted'[j]]
  <2>1. CASE Admits(k)
    BY <1>4, <2>1
  <2>2. CASE ~ Admits(k)
    BY <1>4, <2>2
  <2> QED
    BY <2>1, <2>2
<1>7. KeyOK(k, hits'[k], admitted'[k], called'[k], tick)
  <2>1. KeyOK(k, Fresh(k), admitted[k], called[k], tick)
    BY <1>0, FreshKept
  <2>2. CASE Admits(k)
    <3>1. Len(Fresh(k)) < Limit[k]
      BY <2>2 DEF Admits
    <3>2. KeyOK(k, Append(Fresh(k), tick), Append(admitted[k], tick), tick, tick)
      BY <2>1, <3>1, KeyAdmitted
    <3> QED
      BY <1>2, <1>5, <1>6, <2>2, <3>2 DEF kept
  <2>3. CASE ~ Admits(k)
    <3>1. KeyOK(k, Fresh(k), admitted[k], tick, tick)
      BY <2>1, KeyAsked
    <3> QED
      BY <1>2, <1>5, <1>6, <2>3, <3>1 DEF kept
  <2> QED
    BY <2>2, <2>3
<1>8. ASSUME NEW j \in Keys \ {k}
      PROVE  KeyOK(j, hits'[j], admitted'[j], called'[j], tick)
  <2>1. KeyOK(j, hits[j], admitted[j], called[j], tick)
    BY <1>0
  <2>2. CASE j \in Pruned(k)
    <3>1. j \in FormKeys /\ k \in FormKeys /\ Stale(j, Span[k])
      BY <2>2 DEF Pruned, Keys
    <3>2. KeyOK(j, <<>>, admitted[j], called[j], tick)
      BY <2>1, <3>1, KeyPruned
    <3> QED
      BY <1>3, <1>5, <1>6, <2>2, <3>2
  <2>3. CASE j \notin Pruned(k)
    BY <1>3, <1>5, <1>6, <2>1, <2>3
  <2> QED
    BY <2>2, <2>3
<1>9. MapForgets'
  <2> SUFFICES ASSUME NEW i \in FormKeys, NEW j \in FormKeys, i # j, called'[i] + Span[j] < called'[j]
               PROVE  hits'[i] = <<>>
    BY DEF MapForgets
  <2>1. i \in Keys /\ j \in Keys
    BY DEF Keys
  <2>2. called[i] \in Nat /\ called[j] \in Nat /\ called[i] <= tick /\ called[j] <= tick
    BY <1>0, <2>1 DEF KeyOK
  <2>3. i # k
    <3> SUFFICES ASSUME i = k PROVE FALSE
      OBVIOUS
    <3>1. called'[i] = tick /\ called'[j] = called[j] /\ Span[j] \in Nat
      BY <1>0, <1>5, <2>1
    <3> QED
      BY <1>0, <2>2, <3>1
  <2>4. called'[i] = called[i] /\ hits'[i] = IF i \in Pruned(k) THEN <<>> ELSE hits[i]
    BY <1>3, <1>5, <2>1, <2>3
  <2>5. CASE j # k
    <3>1. called[i] + Span[j] < called[j]
      BY <1>5, <2>1, <2>4, <2>5
    <3>2. hits[i] = <<>>
      BY <1>0, <3>1 DEF MapForgets
    <3> QED
      BY <2>4, <3>2
  <2>6. CASE j = k
    <3>1. called[i] + Span[k] < tick
      BY <1>5, <2>4, <2>6
    <3>2. KeyOK(i, hits[i], admitted[i], called[i], tick)
      BY <1>0, <2>1
    <3>3. hits[i] \in Seq(Nat) /\ \A m \in 1..Len(hits[i]) : hits[i][m] <= called[i]
      BY <3>2 DEF KeyOK
    <3>4. Stale(i, Span[k])
      <4> SUFFICES ASSUME hits[i] # <<>> PROVE Last(hits[i]) + Span[k] < tick
        BY DEF Stale
      <4>1. Len(hits[i]) \in 1..Len(hits[i]) /\ hits[i][Len(hits[i])] \in Nat
        BY <3>3, LenProperties, EmptySeq
      <4>2. Last(hits[i]) = hits[i][Len(hits[i])]
        BY DEF Last
      <4>3. Last(hits[i]) \in Nat /\ Last(hits[i]) <= called[i] /\ Span[k] \in Nat
        BY <1>0, <3>3, <4>1, <4>2
      <4> QED
        BY <1>0, <2>2, <3>1, <4>3
    <3>5. i \in Pruned(k)
      BY <2>3, <2>6, <3>4, ThrottleAssumption DEF Pruned
    <3> QED
      BY <2>4, <3>5
  <2> QED
    BY <2>5, <2>6
<1>10. hits' = [j \in Keys |-> hits'[j]]
  BY <1>1
<1>11. \A j \in Keys : KeyOK(j, hits'[j], admitted'[j], called'[j], tick)
  BY <1>7, <1>8
<1>12. \A j \in Keys : KeyOK(j, hits'[j], admitted'[j], called'[j], tick')
  BY <1>11
<1>13. tick' \in 0..MaxTicks
  BY DEF LimitersInv
<1> QED
  BY <1>5, <1>6, <1>9, <1>10, <1>12, <1>13 DEF LimitersInv

LEMMA LimitersStep ==
  ASSUME LimitersInv, [ThrottleNext]_throttleVars
  PROVE  LimitersInv'
<1>1. CASE ThrottleTick
  <2>1. tick < MaxTicks /\ tick' = tick + 1 /\ UNCHANGED <<hits, admitted, called, caller>>
    BY <1>1 DEF ThrottleTick
  <2>2. MaxTicks \in Nat /\ tick \in 0..MaxTicks
    BY ThrottleAssumption DEF LimitersInv
  <2>3. tick' \in 0..MaxTicks
    BY <2>1, <2>2
  <2>4. \A k \in Keys : KeyOK(k, hits[k], admitted[k], called[k], tick + 1)
    BY KeyLater DEF LimitersInv
  <2>5. \A k \in Keys : KeyOK(k, hits'[k], admitted'[k], called'[k], tick')
    BY <2>1, <2>4
  <2> QED
    BY <2>1, <2>3, <2>5 DEF LimitersInv, MapForgets
<1>2. ASSUME NEW c \in Callers, NEW ask \in Asks, Arrive(c, ask)
      PROVE  LimitersInv'
  <2>1. /\ caller' = [caller EXCEPT ![c] = ask] /\ ask \in Seq(Keys)
        /\ UNCHANGED <<tick, hits, admitted, called>>
    BY <1>2, ThrottleAssumption DEF Arrive
  <2>2. \A k \in Keys : KeyOK(k, hits'[k], admitted'[k], called'[k], tick')
    BY <2>1 DEF LimitersInv
  <2> QED
    BY <2>1, <2>2 DEF LimitersInv, MapForgets
<1>3. ASSUME NEW c \in Callers, AskLimiter(c)
      PROVE  LimitersInv'
  <2> DEFINE k == Head(caller[c])
  <2>1. caller[c] \in Seq(Keys) /\ caller[c] # <<>>
    BY <1>3 DEF AskLimiter, LimitersInv
  <2>2. k \in Keys /\ Tail(caller[c]) \in Seq(Keys) /\ <<>> \in Seq(Keys)
    BY <2>1, HeadTailProperties
  <2>3. Allow(k) /\ tick' = tick
    BY <1>3 DEF AskLimiter
  <2>4. caller' = [caller EXCEPT ![c] = IF Admits(k) THEN Tail(@) ELSE <<>>]
    BY <1>3 DEF AskLimiter
  <2>5. caller' \in [Callers -> Seq(Keys)]
    <3> DEFINE rest == IF Admits(k) THEN Tail(caller[c]) ELSE <<>>
    <3>1. rest \in Seq(Keys) /\ caller' = [caller EXCEPT ![c] = rest]
      BY <2>2, <2>4
    <3> HIDE DEF rest
    <3> QED
      BY <3>1 DEF LimitersInv
  <2> HIDE DEF k
  <2> QED
    BY <2>2, <2>3, <2>5, AllowKeeps
<1>4. CASE \/ \E p \in Notified : MaybeNotify(p)
           \/ \E n \in sending : SendNotice(n)
           \/ UNCHANGED throttleVars
  <2>1. UNCHANGED <<tick, hits, admitted, called, caller>>
    BY <1>4 DEF MaybeNotify, SendNotice, throttleVars
  <2>2. \A k \in Keys : KeyOK(k, hits'[k], admitted'[k], called'[k], tick')
    BY <2>1 DEF LimitersInv
  <2> QED
    BY <2>1, <2>2 DEF LimitersInv, MapForgets
<1> QED
  BY <1>1, <1>2, <1>3, <1>4 DEF ThrottleNext, LimiterNext, NotifierNext

\* Where the notifier's times and projects lie.
NoticesIn ==
  /\ tick \in 0..MaxTicks
  /\ DOMAIN lastSent \subseteq Notified /\ \A p \in DOMAIN lastSent : lastSent[p] \in 0..tick
  /\ sending \subseteq Notice /\ reported \subseteq Notice /\ unanswered \subseteq Notice

LEMMA NoticesInStep ==
  ASSUME NoticesIn, [ThrottleNext]_throttleVars
  PROVE  NoticesIn'
<1>0. MaxTicks \in Nat /\ tick \in 0..MaxTicks
  BY ThrottleAssumption DEF NoticesIn
<1>1. CASE ThrottleTick
  <2>1. tick < MaxTicks /\ tick' = tick + 1 /\ UNCHANGED <<lastSent, sending, reported, unanswered>>
    BY <1>1 DEF ThrottleTick
  <2> QED
    BY <1>0, <2>1 DEF NoticesIn
<1>2. ASSUME NEW p \in Notified, MaybeNotify(p)
      PROVE  NoticesIn'
  <2>1. /\ lastSent' = [q \in DOMAIN lastSent \cup {p} |-> IF q = p THEN tick ELSE lastSent[q]]
        /\ sending' = sending \cup {[project |-> p, at |-> tick]}
        /\ UNCHANGED <<tick, reported, unanswered>>
    BY <1>2 DEF MaybeNotify, Put
  <2>2. DOMAIN lastSent' \subseteq Notified /\ \A q \in DOMAIN lastSent' : lastSent'[q] \in 0..tick
    BY <1>0, <2>1 DEF NoticesIn
  <2>3. [project |-> p, at |-> tick] \in Notice
    BY <1>0 DEF Notice
  <2> QED
    BY <2>1, <2>2, <2>3 DEF NoticesIn
<1>3. ASSUME NEW n \in sending, SendNotice(n)
      PROVE  NoticesIn'
  <2>1. /\ sending' = sending \ {n} /\ tick' = tick /\ reported' \subseteq reported \cup {n}
        /\ unanswered' \subseteq unanswered \cup {n}
    BY <1>3 DEF SendNotice
  <2>2. \/ lastSent' = lastSent
        \/ lastSent' = [p \in DOMAIN lastSent \ {n.project} |-> lastSent[p]]
    BY <1>3 DEF SendNotice, Cleared
  <2>3. DOMAIN lastSent' \subseteq Notified /\ \A q \in DOMAIN lastSent' : lastSent'[q] \in 0..tick
    BY <2>2 DEF NoticesIn
  <2> QED
    BY <2>1, <2>3 DEF NoticesIn
<1>4. CASE \/ \E c \in Callers : (\E ask \in Asks : Arrive(c, ask)) \/ AskLimiter(c)
           \/ UNCHANGED throttleVars
  <2>1. UNCHANGED <<tick, lastSent, sending, reported, unanswered>>
    BY <1>4 DEF Arrive, AskLimiter, throttleVars
  <2> QED
    BY <2>1 DEF NoticesIn
<1> QED
  BY <1>1, <1>2, <1>3, <1>4 DEF ThrottleNext, LimiterNext, NotifierNext

LEMMA ThrottleInit_Inv ==
  ASSUME ThrottleInit
  PROVE  LimitersInv /\ NoticesIn
<1>1. <<>> \in Seq(Nat) /\ <<>> \in Seq(Keys) /\ Len(<<>>) = 0 /\ MaxTicks \in Nat
  BY ThrottleAssumption
<1>2. /\ tick = 0 /\ hits = [k \in Keys |-> <<>>] /\ admitted = [k \in Keys |-> <<>>]
      /\ called = [k \in Keys |-> 0] /\ caller = [c \in Callers |-> <<>>]
  BY DEF ThrottleInit
<1>3. ASSUME NEW k \in Keys PROVE KeyOK(k, <<>>, <<>>, 0, 0)
  <2>1. 0 <= Limit[k] /\ Limit[k] \in Nat
    BY ThrottleAssumption
  <2>2. 0 <= 0 /\ 0 - 0 = 0 /\ \A i \in 1..0 : FALSE
    OBVIOUS
  <2> QED
    BY <1>1, <2>1, <2>2 DEF KeyOK
<1>4. \A k \in Keys : KeyOK(k, hits[k], admitted[k], called[k], tick)
  BY <1>2, <1>3
<1>5. MapForgets
  BY <1>2 DEF MapForgets, Keys
<1>6. LimitersInv
  BY <1>1, <1>2, <1>4, <1>5 DEF LimitersInv
<1>7. NoticesIn
  BY <1>1 DEF ThrottleInit, NoticesIn
<1> QED
  BY <1>6, <1>7

\* A list of times so far is a list of members of 0..now.
LEMMA TimesSoFar ==
  ASSUME NEW s \in Seq(Nat), NEW t \in Nat, \A i \in 1..Len(s) : s[i] <= t
  PROVE  s \in Seq(0..t)
<1>1. Len(s) \in Nat /\ s \in [1..Len(s) -> Nat]
  BY LenProperties
<1>2. s \in [1..Len(s) -> 0..t]
  BY <1>1
<1> QED
  BY <1>1, <1>2, SeqDef

LEMMA ThrottleInv_Safe ==
  ASSUME LimitersInv, NoticesIn, NotifiedApart
  PROVE  ThrottleSafe
<1>1. tick \in Nat /\ \A k \in Keys : Limit[k] \in Nat \ {0}
  BY ThrottleAssumption DEF LimitersInv
<1>2. ASSUME NEW k \in Keys
      PROVE  /\ hits[k] \in Seq(0..tick) /\ Len(hits[k]) <= Limit[k]
             /\ admitted[k] \in Seq(0..tick) /\ called[k] \in 0..tick
  <2>1. KeyOK(k, hits[k], admitted[k], called[k], tick)
    BY DEF LimitersInv
  <2>2. /\ hits[k] \in Seq(Nat) /\ admitted[k] \in Seq(Nat) /\ called[k] \in 0..tick
        /\ \A i \in 1..Len(admitted[k]) : admitted[k][i] <= tick
        /\ Len(hits[k]) <= Limit[k]
    BY <1>1, <2>1 DEF KeyOK
  <2>3. \A i \in 1..Len(hits[k]) : hits[k][i] <= tick
    <3>1. \A i \in 1..Len(hits[k]) : hits[k][i] \in Nat
      BY <2>2, LenProperties
    <3>2. \A i \in 1..Len(hits[k]) : hits[k][i] <= called[k]
      BY <2>1 DEF KeyOK
    <3> QED
      BY <1>1, <2>2, <3>1, <3>2
  <2> QED
    BY <1>1, <2>2, <2>3, TimesSoFar
<1>3. ThrottleTypeOK
  <2>1. called \in [Keys -> 0..tick]
    BY <1>2 DEF LimitersInv
  <2> QED
    BY <1>2, <2>1 DEF ThrottleTypeOK, LimitersInv, NoticesIn
<1>4. WindowHolds
  <2> SUFFICES ASSUME NEW k \in Keys, NEW i \in DOMAIN admitted[k],
                      i + Limit[k] \in DOMAIN admitted[k]
               PROVE  Past(k, admitted[k][i], admitted[k][i + Limit[k]])
    BY DEF WindowHolds
  <2>1. KeyOK(k, hits[k], admitted[k], called[k], tick)
    BY DEF LimitersInv
  <2>2. DOMAIN admitted[k] = 1..Len(admitted[k]) /\ Len(admitted[k]) \in Nat
    BY <2>1, LenProperties DEF KeyOK
  <2>3. i \in 1..Len(admitted[k]) /\ i + Limit[k] <= Len(admitted[k])
    BY <2>2
  <2> QED
    BY <2>1, <2>3 DEF KeyOK
<1> QED
  BY <1>3, <1>4 DEF ThrottleSafe, LimitersInv

(***************************************************************************)
(* For any number of keys, windows, limits and callers: no key is admitted *)
(* more often than its limit within the shortest window of its limiter,    *)
(* though every call prunes the keys of the others; what is over is        *)
(* forgotten; and a notification whose answer came is alone for the length *)
(* of the throttle (registration.go, email.go, transmittal_notify.go).     *)
(***************************************************************************)
THEOREM LimitsAreSafe == ThrottleSpec => []ThrottleSafe
<1>1. ThrottleSpec => [](LimitersInv /\ NoticesIn)
  <2>1. LimitersInv /\ NoticesIn /\ [ThrottleNext]_throttleVars => (LimitersInv /\ NoticesIn)'
    BY LimitersStep, NoticesInStep
  <2> QED
    BY <2>1, ThrottleInit_Inv, PTL DEF ThrottleSpec
<1>2. LimitersInv /\ NoticesIn /\ NotifiedApart => ThrottleSafe
  BY ThrottleInv_Safe
<1> QED
  BY <1>1, <1>2, NotificationsApart, PTL

-----------------------------------------------------------------------------
(* What SignInSafe needs to be inductive: how a redemption in flight is    *)
(* tied to the row it has read, and what the row remembers.                *)

\* A request that has been mailed has its row, and no other has one.
RowsMailed == \A l \in Links : linkRow[l].state # "none" <=> linkReq[l] = "mailed"

\* A redemption in flight holds a link whose row it has found; burned, the
\* row is used.
HoldsRow ==
    \A o \in Openings : opening[o].pc \in {"read", "burned"} =>
        /\ opening[o].link \in Links
        /\ linkRow[opening[o].link].state # "none"
        /\ opening[o].pc = "burned" => linkRow[opening[o].link].state = "used"

\* A session's redemption is over and its link is used.
SessionsOver ==
    \A x \in redeemed : opening[x[1]].pc = "done" /\ linkRow[x[2]].state = "used"

\* Who has burned a link is alone with it, among those on the way and those
\* that have their session.
BurnedAlone ==
    \A o \in Openings : opening[o].pc = "burned" =>
        /\ \A p \in Openings : opening[p].pc = "burned" /\ opening[p].link = opening[o].link => p = o
        /\ \A x \in redeemed : x[2] # opening[o].link

\* A link that can still be opened knows every reset that has burned.
LiveKnows == \A l \in Links : linkRow[l].state = "live" => ResetsDone \subseteq linkRow[l].known

\* Of the resets that have burned, a redemption in flight follows only those
\* its link knows.
HeldKnows ==
    \A o \in Openings : opening[o].pc \in {"read", "burned"} =>
        opening[o].after \cap ResetsDone \subseteq linkRow[opening[o].link].known

\* What an opening follows has answered, and so does not burn any more.
AfterAnswered == \A o \in Openings : opening[o].after \subseteq ResetsAnswered

SignInInv ==
    /\ SignInSafe
    /\ RowsMailed
    /\ HoldsRow
    /\ SessionsOver
    /\ BurnedAlone
    /\ LiveKnows
    /\ HeldKnows
    /\ AfterAnswered
-----------------------------------------------------------------------------
\* Before the first request the desk is safe, and nothing is in flight.
LEMMA SignInInvInit == SignInInit => SignInInv
  BY SignInAssumption
  DEF SignInInit, SignInInv, SignInSafe, SignInTypeOK, LinkOnce, ResetEndsLinks, GateHeld,
      RowsMailed, HoldsRow, SessionsOver, BurnedAlone, LiveKnows, HeldKnows, ResetsDone,
      AfterAnswered, ResetsAnswered

\* Every statement keeps the types; a session's link is one because of HoldsRow.
LEMMA SignInTypeStep ==
  ASSUME SignInTypeOK, HoldsRow, [SignInNext]_signInVars
  PROVE  SignInTypeOK'
<1> USE SignInAssumption DEF SignInTypeOK
<1>1. CASE ClockTick
  BY <1>1 DEF ClockTick
<1>2. ASSUME NEW l \in Links, CountLinks(l) PROVE SignInTypeOK'
  BY <1>2 DEF CountLinks
<1>3. ASSUME NEW l \in Links, InsertLink(l) PROVE SignInTypeOK'
  BY <1>3 DEF InsertLink, PasswordsSet
<1>4. ASSUME NEW o \in Openings, NEW l \in Links, ReadLink(o, l) PROVE SignInTypeOK'
  BY <1>4 DEF ReadLink, ResetsAnswered
<1>5. ASSUME NEW o \in Openings, BurnLink(o) PROVE SignInTypeOK'
  <2>1. PICK l \in Links : opening[o].link = l
    BY <1>5 DEF BurnLink, HoldsRow
  <2>2. linkRow' = [linkRow EXCEPT ![l].state = "used"] \/ linkRow' = linkRow
    BY <1>5, <2>1 DEF BurnLink
  <2>3. linkRow' \in [Links -> [state: {"none", "live", "used"}, at: 0..MaxClock,
                                known: SUBSET Resets]]
    BY <2>2, ZenonT(30)
  <2>4. \/ opening' = [opening EXCEPT ![o].pc = "burned"]
        \/ opening' = [opening EXCEPT ![o].pc = "done"]
    BY <1>5 DEF BurnLink
  <2>5. UNCHANGED <<clock, linkReq, redeemed, resetting, tokens, rolling>>
    BY <1>5 DEF BurnLink
  <2> DEFINE OpeningRow == [pc: {"idle", "read", "burned", "done"}, link: Links \cup {"none"}, after: SUBSET Resets]
  <2>6. PICK b \in OpeningRow : b = opening[o]
    OBVIOUS
  <2>7. /\ [b EXCEPT !.pc = "burned"] \in OpeningRow
        /\ [b EXCEPT !.pc = "done"] \in OpeningRow
    OBVIOUS
  <2>8. \E m \in OpeningRow : opening' = [opening EXCEPT ![o] = m]
    BY <2>4, <2>6, <2>7
  <2>9. opening \in [Openings -> OpeningRow]
    OBVIOUS
  <2> HIDE DEF OpeningRow
  <2>10. opening' \in [Openings -> OpeningRow]
    BY <2>8, <2>9
  <2> QED
    BY <2>3, <2>5, <2>10 DEF OpeningRow
<1>6. ASSUME NEW o \in Openings, SetCookie(o) PROVE SignInTypeOK'
  <2>1. opening[o].link \in Links
    BY <1>6 DEF SetCookie, HoldsRow
  <2>2. <<o, opening[o].link>> \in Openings \X Links
    BY <2>1
  <2> QED
    BY <1>6, <2>2, SMTT(30) DEF SetCookie
<1>7. ASSUME NEW o \in Openings, AbandonOpening(o) PROVE SignInTypeOK'
  BY <1>7, ZenonT(30) DEF AbandonOpening
<1>8. ASSUME NEW r \in Resets, UpdatePassword(r) PROVE SignInTypeOK'
  BY <1>8 DEF UpdatePassword
<1>9. ASSUME NEW r \in Resets, BurnOutstanding(r) PROVE SignInTypeOK'
  BY <1>9 DEF BurnOutstanding
<1>12. ASSUME NEW r \in Resets, BurnFails(r) PROVE SignInTypeOK'
  BY <1>12 DEF BurnFails
<1>10. ASSUME NEW m \in Rolls, DeleteTokens(m) \/ CreateToken(m) \/ CreateTokenFails(m)
       PROVE  SignInTypeOK'
  BY <1>10 DEF DeleteTokens, CreateToken, CreateTokenFails
<1>11. CASE UNCHANGED signInVars
  BY <1>11 DEF signInVars
<1> QED
  BY <1>1, <1>2, <1>3, <1>4, <1>5, <1>6, <1>7, <1>8, <1>9, <1>10, <1>11, <1>12
  DEF SignInNext, LinkNext, TokenNext

LinkInv == RowsMailed /\ HoldsRow /\ SessionsOver /\ BurnedAlone /\ LinkOnce

\* A step that leaves requests, rows, openings and sessions alone.
LEMMA LinkFrame ==
  ASSUME LinkInv, UNCHANGED <<linkReq, linkRow, opening, redeemed>>
  PROVE  LinkInv'
  BY DEF LinkInv, RowsMailed, HoldsRow, SessionsOver, BurnedAlone, LinkOnce

\* Every statement keeps who holds which row: the conditional UPDATE lets one
\* opening through.
LEMMA LinkStep ==
  ASSUME SignInTypeOK, LinkInv, [SignInNext]_signInVars
  PROVE  LinkInv'
<1> USE DEF SignInTypeOK, RowsMailed, HoldsRow, SessionsOver, BurnedAlone, LinkOnce
<1>1. ASSUME NEW l \in Links, CountLinks(l) PROVE LinkInv'
  BY <1>1 DEF CountLinks, LinkInv
<1>2. ASSUME NEW l \in Links, InsertLink(l) PROVE LinkInv'
  <2>1. linkRow[l].state = "none"
    BY <1>2 DEF InsertLink, LinkInv
  <2>2. \A k \in Links : k # l => linkRow'[k] = linkRow[k]
    BY <1>2 DEF InsertLink
  <2>3. RowsMailed'
    BY <1>2 DEF InsertLink, LinkInv
  <2>4. HoldsRow' /\ BurnedAlone'
    BY <1>2, <2>1, <2>2 DEF InsertLink, LinkInv
  <2>5. SessionsOver' /\ LinkOnce'
    BY <1>2, <2>1, <2>2 DEF InsertLink, LinkInv
  <2> QED
    BY <2>3, <2>4, <2>5 DEF LinkInv
<1>3. ASSUME NEW o \in Openings, NEW l \in Links, ReadLink(o, l) PROVE LinkInv'
  <2>1. \A x \in redeemed : x[1] # o
    BY <1>3 DEF ReadLink, LinkInv
  <2> QED
    BY <1>3, <2>1 DEF ReadLink, Usable, LinkInv
<1>4. ASSUME NEW o \in Openings, BurnLink(o) PROVE LinkInv'
  <2> DEFINE l == opening[o].link
  <2>1. l \in Links /\ linkRow[l].state # "none" /\ \A x \in redeemed : x[1] # o
    BY <1>4 DEF BurnLink, LinkInv
  <2>2. CASE linkRow[l].state = "live"
    <3>1. /\ linkRow' = [linkRow EXCEPT ![l].state = "used"]
          /\ opening' = [opening EXCEPT ![o].pc = "burned"]
          /\ UNCHANGED <<linkReq, redeemed>>
      BY <1>4, <2>2 DEF BurnLink
    <3>2. \A p \in Openings : opening[p].pc = "burned" => opening[p].link # l
      BY <2>2 DEF LinkInv
    <3>3. \A x \in redeemed : x[2] # l
      BY <2>2 DEF LinkInv
    <3>4. RowsMailed' /\ HoldsRow'
      BY <2>1, <2>2, <3>1 DEF LinkInv
    <3>5. SessionsOver' /\ LinkOnce'
      BY <2>1, <3>1, <3>3 DEF LinkInv
    <3>6. BurnedAlone'
      BY <2>1, <3>1, <3>2, <3>3 DEF LinkInv
    <3> QED
      BY <3>4, <3>5, <3>6 DEF LinkInv
  <2>3. CASE linkRow[l].state # "live"
    BY <1>4, <2>1, <2>3, SMTT(30) DEF BurnLink, LinkInv
  <2> QED
    BY <2>2, <2>3
<1>5. ASSUME NEW o \in Openings, SetCookie(o) PROVE LinkInv'
  <2>1. opening[o].link \in Links /\ linkRow[opening[o].link].state = "used"
    BY <1>5 DEF SetCookie, LinkInv
  <2>2. \A p \in Openings : p # o /\ opening'[p].pc = "burned" => opening[p].link # opening[o].link
    BY <1>5 DEF SetCookie, LinkInv
  <2>3. \A x \in redeemed : x[2] # opening[o].link
    BY <1>5 DEF SetCookie, LinkInv
  <2>4. RowsMailed' /\ HoldsRow'
    BY <1>5 DEF SetCookie, LinkInv
  <2>5. SessionsOver' /\ LinkOnce'
    BY <1>5, <2>1, <2>3 DEF SetCookie, LinkInv
  <2>6. BurnedAlone'
    BY <1>5, <2>2 DEF SetCookie, LinkInv
  <2> QED
    BY <2>4, <2>5, <2>6 DEF LinkInv
<1>6. ASSUME NEW o \in Openings, AbandonOpening(o) PROVE LinkInv'
  BY <1>6 DEF AbandonOpening, LinkInv
<1>7. ASSUME NEW r \in Resets, BurnOutstanding(r) PROVE LinkInv'
  <2>1. \A l \in Links : /\ linkRow'[l].state = "none" <=> linkRow[l].state = "none"
                         /\ linkRow[l].state = "used" => linkRow'[l].state = "used"
    BY <1>7 DEF BurnOutstanding
  <2>2. UNCHANGED <<linkReq, opening, redeemed>>
    BY <1>7 DEF BurnOutstanding
  <2>3. RowsMailed' /\ HoldsRow' /\ BurnedAlone'
    BY <2>1, <2>2 DEF LinkInv
  <2>4. SessionsOver' /\ LinkOnce'
    BY <2>1, <2>2 DEF LinkInv
  <2> QED
    BY <2>3, <2>4 DEF LinkInv
<1>8. ASSUME NEW r \in Resets, UpdatePassword(r) \/ BurnFails(r) PROVE LinkInv'
  BY <1>8, LinkFrame DEF UpdatePassword, BurnFails
<1>9. ASSUME NEW m \in Rolls, DeleteTokens(m) \/ CreateToken(m) \/ CreateTokenFails(m)
      PROVE  LinkInv'
  BY <1>9, LinkFrame DEF DeleteTokens, CreateToken, CreateTokenFails
<1>10. CASE ClockTick \/ UNCHANGED signInVars
  BY <1>10, LinkFrame DEF ClockTick, signInVars
<1> QED
  BY <1>1, <1>2, <1>3, <1>4, <1>5, <1>6, <1>7, <1>8, <1>9, <1>10
  DEF SignInNext, LinkNext, TokenNext

KnownInv == LiveKnows /\ HeldKnows /\ AfterAnswered /\ ResetEndsLinks

\* A step that leaves rows, openings, sessions and resets alone.
LEMMA KnownFrame ==
  ASSUME KnownInv, UNCHANGED <<linkRow, opening, redeemed, resetting>>
  PROVE  KnownInv'
  BY DEF KnownInv, LiveKnows, HeldKnows, AfterAnswered, ResetEndsLinks, ResetsDone,
         ResetsAnswered

\* Every statement keeps what rows and openings know of the resets: a reset is
\* done only after it burned every link that did not know it.
LEMMA KnownStep ==
  ASSUME SignInTypeOK, LinkInv, KnownInv, [SignInNext]_signInVars
  PROVE  KnownInv'
<1> USE DEF SignInTypeOK, LiveKnows, HeldKnows, AfterAnswered, ResetEndsLinks, ResetsDone,
        ResetsAnswered
<1>1. ASSUME NEW l \in Links, InsertLink(l) PROVE KnownInv'
  <2>1. linkRow[l].state = "none"
    BY <1>1 DEF InsertLink, LinkInv, RowsMailed
  <2>2. \A k \in Links : k # l => linkRow'[k] = linkRow[k]
    BY <1>1 DEF InsertLink
  <2>3. \A o \in Openings : opening[o].pc \in {"read", "burned"} => opening[o].link # l
    BY <2>1 DEF LinkInv, HoldsRow
  <2>4. \A x \in redeemed : x[2] # l
    BY <2>1 DEF LinkInv, SessionsOver
  <2>5. LiveKnows'
    BY <1>1, <2>2 DEF InsertLink, PasswordsSet, KnownInv
  <2>6. HeldKnows'
    BY <1>1, <2>2, <2>3 DEF InsertLink, KnownInv, LinkInv, HoldsRow
  <2>7. ResetEndsLinks'
    BY <1>1, <2>2, <2>4 DEF InsertLink, KnownInv
  <2>8. AfterAnswered'
    BY <1>1 DEF InsertLink, KnownInv
  <2> QED
    BY <2>5, <2>6, <2>7, <2>8 DEF KnownInv
<1>2. ASSUME NEW o \in Openings, NEW l \in Links, ReadLink(o, l) PROVE KnownInv'
  <2>1. \A x \in redeemed : x[1] # o
    BY <1>2 DEF ReadLink, LinkInv, SessionsOver
  <2> QED
    BY <1>2, <2>1 DEF ReadLink, Usable, KnownInv
<1>3. ASSUME NEW o \in Openings, BurnLink(o) PROVE KnownInv'
  <2>1. /\ \A l \in Links : /\ linkRow'[l].known = linkRow[l].known
                            /\ linkRow'[l].state = "live" => linkRow[l].state = "live"
        /\ \A p \in Openings : /\ opening'[p].after = opening[p].after
                               /\ opening'[p].link = opening[p].link
                               /\ opening'[p].pc \in {"read", "burned"}
                                    => opening[p].pc \in {"read", "burned"}
        /\ UNCHANGED <<redeemed, resetting>>
    <3> HIDE DEF LiveKnows, HeldKnows, AfterAnswered, ResetEndsLinks, ResetsDone, ResetsAnswered
    <3>1. CASE linkRow[opening[o].link].state = "live"
      <4>1. /\ linkRow' = [linkRow EXCEPT ![opening[o].link].state = "used"]
            /\ opening' = [opening EXCEPT ![o].pc = "burned"]
            /\ UNCHANGED <<redeemed, resetting>>
            /\ opening[o].pc = "read"
        BY <1>3, <3>1 DEF BurnLink
      <4>2. \A l \in Links : /\ linkRow'[l].known = linkRow[l].known
                             /\ linkRow'[l].state = "live" => linkRow[l].state = "live"
        BY <4>1
      <4>3. \A p \in Openings : /\ opening'[p].after = opening[p].after
                                /\ opening'[p].link = opening[p].link
                                /\ opening'[p].pc \in {"read", "burned"}
                                     => opening[p].pc \in {"read", "burned"}
        BY <4>1
      <4> QED
        BY <4>1, <4>2, <4>3
    <3>2. CASE linkRow[opening[o].link].state # "live"
      BY <1>3, <3>2 DEF BurnLink
    <3> QED
      BY <3>1, <3>2
  <2>2. \A p \in Openings : opening[p].pc \in {"read", "burned"} => opening[p].link \in Links
    BY DEF LinkInv, HoldsRow
  <2> QED
    BY <2>1, <2>2 DEF KnownInv
<1>4. ASSUME NEW o \in Openings, SetCookie(o) PROVE KnownInv'
  BY <1>4 DEF SetCookie, KnownInv
<1>5. ASSUME NEW o \in Openings, AbandonOpening(o) PROVE KnownInv'
  BY <1>5 DEF AbandonOpening, KnownInv
<1>6. ASSUME NEW r \in Resets, UpdatePassword(r) \/ BurnFails(r) PROVE KnownInv'
  <2>1. /\ resetting[r] = "updated" \/ resetting[r] = "idle"
        /\ resetting' = [resetting EXCEPT ![r] = "updated"]
           \/ resetting' = [resetting EXCEPT ![r] = "unburned"]
        /\ UNCHANGED <<linkRow, opening, redeemed>>
    BY <1>6 DEF UpdatePassword, BurnFails
  <2>2. ResetsDone' = ResetsDone /\ ResetsAnswered \subseteq ResetsAnswered'
    BY <2>1
  <2> HIDE DEF ResetsDone, ResetsAnswered
  <2> QED
    BY <2>1, <2>2 DEF KnownInv
<1>7. ASSUME NEW r \in Resets, BurnOutstanding(r) PROVE KnownInv'
  <2>1. \A l \in Links : linkRow'[l].known = linkRow[l].known /\ linkRow'[l].state # "live"
    BY <1>7 DEF BurnOutstanding
  <2>2. UNCHANGED <<opening, redeemed>> /\ r \notin ResetsAnswered
    BY <1>7 DEF BurnOutstanding
  <2>3. ResetsDone' = ResetsDone \cup {r} /\ ResetsAnswered' = ResetsAnswered \cup {r}
    BY <1>7 DEF BurnOutstanding
  <2>4. \A o \in Openings : r \notin opening[o].after
    BY <2>2 DEF KnownInv
  <2>5. \A x \in redeemed : x[1] \in Openings /\ x[2] \in Links
    OBVIOUS
  <2> HIDE DEF ResetsDone, ResetsAnswered
  <2>6. \A o \in Openings : opening[o].after \cap ResetsDone' = opening[o].after \cap ResetsDone
    BY <2>3, <2>4
  <2>7. HeldKnows'
    BY <2>1, <2>2, <2>6 DEF KnownInv, LinkInv, HoldsRow
  <2>8. ResetEndsLinks'
    BY <2>1, <2>2, <2>5, <2>6 DEF KnownInv
  <2> QED
    BY <2>1, <2>2, <2>3, <2>7, <2>8 DEF KnownInv
<1>8. ASSUME NEW l \in Links, CountLinks(l) PROVE KnownInv'
  BY <1>8, KnownFrame DEF CountLinks
<1>9. ASSUME NEW m \in Rolls, DeleteTokens(m) \/ CreateToken(m) \/ CreateTokenFails(m)
      PROVE  KnownInv'
  BY <1>9, KnownFrame DEF DeleteTokens, CreateToken, CreateTokenFails
<1>10. CASE ClockTick \/ UNCHANGED signInVars
  BY <1>10, KnownFrame DEF ClockTick, signInVars
<1> QED
  BY <1>1, <1>2, <1>3, <1>4, <1>5, <1>6, <1>7, <1>8, <1>9, <1>10
  DEF SignInNext, LinkNext, TokenNext

\* Every statement keeps the gate: a roll that finds no token is itself one
\* that stores one or fails there.
LEMMA GateStep ==
  ASSUME SignInTypeOK, GateHeld, [SignInNext]_signInVars
  PROVE  GateHeld'
<1> USE DEF SignInTypeOK, GateHeld
<1>1. ASSUME NEW m \in Rolls, DeleteTokens(m) \/ CreateToken(m) \/ CreateTokenFails(m)
      PROVE  GateHeld'
  BY <1>1 DEF DeleteTokens, CreateToken, CreateTokenFails
<1>2. CASE LinkNext \/ UNCHANGED signInVars
  <2>1. UNCHANGED <<tokens, rolling>>
    BY <1>2
    DEF LinkNext, ClockTick, CountLinks, InsertLink, ReadLink, BurnLink, SetCookie,
        AbandonOpening, UpdatePassword, BurnOutstanding, BurnFails, signInVars
  <2> QED
    BY <2>1
<1> QED
  BY <1>1, <1>2 DEF SignInNext, TokenNext

\* Whatever requests are made and however their statements interleave: a link
\* makes one session, a reset that burns the links made before it has ended them
\* whatever earlier resets failed to, and a project's gate is lost only by a roll
\* that failed half-way (srv/login_links.go, srv/passes.go).
THEOREM SignInIsSafe == SignInSpec => []SignInSafe
<1>1. SignInInv => SignInSafe
  BY DEF SignInInv
<1>2. SignInInv /\ [SignInNext]_signInVars => SignInInv'
  <2> SUFFICES ASSUME SignInInv, [SignInNext]_signInVars PROVE SignInInv'
    OBVIOUS
  <2>1. SignInTypeOK /\ LinkInv /\ KnownInv /\ GateHeld
    BY DEF SignInInv, SignInSafe, LinkInv, KnownInv
  <2>2. SignInTypeOK'
    BY <2>1, SignInTypeStep DEF LinkInv
  <2>3. LinkInv' /\ KnownInv' /\ GateHeld'
    BY <2>1, LinkStep, KnownStep, GateStep
  <2> QED
    BY <2>2, <2>3 DEF SignInInv, SignInSafe, LinkInv, KnownInv
<1> QED
  BY <1>1, <1>2, SignInInvInit, PTL DEF SignInSpec
=============================================================================
