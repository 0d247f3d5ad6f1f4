------------------------------- MODULE Slugs -------------------------------
(***************************************************************************)
(* The addresses /{client}/{project}/ of the portal: how they are given    *)
(* out, renamed and redirected.                                            *)
(*                                                                         *)
(* A rename is one transaction that also writes slug_aliases; the table is *)
(* then copied into the map the router reads, in two steps of its own.     *)
(* Creating a project from the portal and PUT /api/projects/{id} read a    *)
(* row in one statement and write in another.                              *)
(***************************************************************************)
EXTENDS Naturals, FiniteSets, FiniteSetsExt, Functions

CONSTANTS
    MaxClient, \* client slugs are 1..MaxClient: base, base2, base3, ...
    MaxBook,   \* project slugs 1..MaxBook are book-001, book-002, ...
    Projects,  \* project ids
    Renames,   \* rename requests
    Edits      \* portal creations and PUT requests

ASSUME SlugsAssumption == MaxClient \in Nat \ {0} /\ MaxBook \in Nat \ {0}

VARIABLES
    clients,  \* clients.slug
    path,     \* where each project lives; NoPath before it is created
    aliases,  \* slug_aliases: a function from old addresses to new ones
    cache,    \* s.aliases, the copy the router reads
    renaming, \* where each rename is, and the rows its load has read
    editing,  \* where each edit is, and the row it has read
    mailed,   \* history: the address each fulfilment mail gave its project
    typed,    \* history: clients and projects whose slug a person typed
    moved,    \* history: a PUT changed an address, or a project was created
              \* under a client renamed since it was looked up
    crossed   \* history: two renames were being loaded at the same time

slugVars == <<clients, path, aliases, cache, renaming, editing, mailed, typed, moved,
             crossed>>

Slug == 1..MaxClient
Title == MaxBook + 1   \* a slug made from a title, not of the form book-NNN
Portal == 0            \* project = "": the client's own page
Address == [client: Slug, project: 0..Title]
At(c, p) == [client |-> c, project |-> p]
NoPath == At(0, 0)
Live == {p \in Projects : path[p] # NoPath}
Paths == {path[p] : p \in Live}
NoAliases == [a \in {} |-> NoPath]
NotEditing == [pc |-> "idle", project |-> "none", row |-> NoPath]
IsAliases(f) == DOMAIN f \subseteq Address /\ \A a \in DOMAIN f : f[a] \in Address

SlugsTypeOK ==
    /\ clients \subseteq Slug
    /\ path \in [Projects -> [client: Slug, project: 1..Title] \cup {NoPath}]
    /\ IsAliases(aliases) /\ IsAliases(cache)
    /\ \A r \in Renames : /\ renaming[r].pc \in {"idle", "load", "install", "done"}
                          /\ IsAliases(renaming[r].rows)
    /\ editing \in [Edits -> [pc: {"idle", "create", "update", "done"},
                              project: Projects \cup {"none"},
                              row: Address \cup {NoPath}]]
    /\ mailed \in [Projects -> Address \cup {NoPath}]
    /\ typed \in [clients: SUBSET Slug, projects: SUBSET Projects]
    /\ moved \in BOOLEAN /\ crossed \in BOOLEAN

SlugsInit ==
    /\ clients = {} /\ path = [p \in Projects |-> NoPath]
    /\ aliases = NoAliases /\ cache = NoAliases
    /\ renaming = [r \in Renames |-> [pc |-> "idle", rows |-> NoAliases]]
    /\ editing = [e \in Edits |-> NotEditing]
    /\ mailed = path
    /\ typed = [clients |-> {}, projects |-> {}]
    /\ moved = FALSE /\ crossed = FALSE

(***************************************************************************)
(* Choosing slugs (uniqueClientSlug, nextProjectSlug).                     *)
(***************************************************************************)
FreeClientSlugs == {c \in Slug \ clients : \A a \in DOMAIN aliases : a.client # c}

\* The numbers taken under c, by a project or by the alias of one.
BookNumbers(c) ==
    ( {path[p].project : p \in {q \in Live : path[q].client = c}}
      \cup {a.project : a \in {b \in DOMAIN aliases : b.client = c}} ) \cap 1..MaxBook

NextBook(c) == Max(BookNumbers(c) \cup {0}) + 1

\* fulfillPass: a client and its first project, in one transaction.
FulfilPortal(p) ==
    /\ path[p] = NoPath
    /\ FreeClientSlugs # {}
    /\ LET c == Min(FreeClientSlugs) IN
         /\ NextBook(c) <= MaxBook
         /\ clients' = clients \cup {c}
         /\ path' = [path EXCEPT ![p] = At(c, NextBook(c))]
         /\ mailed' = [mailed EXCEPT ![p] = At(c, NextBook(c))]
    /\ UNCHANGED <<aliases, cache, renaming, editing, typed, moved, crossed>>

(***************************************************************************)
(* Slugs typed by a person: handleAdminCreateClient, handleCreateProject   *)
(* and handleDuplicateProject (INSERT OR IGNORE of the client), and the    *)
(* project suggested by handleAdminSlugSuggest for a client.               *)
(***************************************************************************)
CreateClient(c) ==
    /\ c \notin clients
    /\ clients' = clients \cup {c}
    /\ typed' = [typed EXCEPT !.clients = @ \cup {c}]
    /\ UNCHANGED <<path, aliases, cache, renaming, editing, moved, crossed, mailed>>

CreateProject(p, a) ==
    /\ path[p] = NoPath
    /\ a \notin Paths
    /\ clients' = clients \cup {a.client}
    /\ path' = [path EXCEPT ![p] = a]
    /\ typed' = [clients |-> typed.clients \cup ({a.client} \ clients),
                 projects |-> typed.projects \cup {p}]
    /\ UNCHANGED <<aliases, cache, renaming, editing, moved, crossed, mailed>>

(***************************************************************************)
(* Renames, each one transaction.                                          *)
(***************************************************************************)
Readdress(f, from, to) == [a \in DOMAIN f |-> IF f[a] = from THEN to ELSE f[a]]

\* DELETE the aliases of the name taken, INSERT OR REPLACE one for the name left.
Record(f, freed, old, new) ==
    [a \in (DOMAIN f \ freed) \cup {old} |-> IF a = old THEN new ELSE f[a]]

Loading(r) == renaming[r].pc \in {"load", "install"}

Commit(r) ==
    /\ renaming' = [renaming EXCEPT ![r].pc = "load"]
    /\ crossed' = (crossed \/ \E x \in Renames : Loading(x))

FollowClient_Forgotten(f, old, new) == f

FollowClient(f, old, new) ==
    [a \in DOMAIN f |-> IF f[a].client = old THEN [f[a] EXCEPT !.client = new] ELSE f[a]]

RenameClient(r, old, new) ==
    /\ renaming[r].pc = "idle"
    /\ old \in clients /\ new \notin clients
    /\ \A p, q \in Live : ~ (/\ path[p].client = old /\ path[q].client = new
                             /\ path[p].project = path[q].project)
    /\ clients' = (clients \ {old}) \cup {new}
    /\ path' = [p \in Projects |-> IF p \in Live /\ path[p].client = old
                                   THEN [path[p] EXCEPT !.client = new] ELSE path[p]]
    /\ aliases' = Record(FollowClient(aliases, old, new),
                         {a \in Address : a.client = new}, At(old, Portal), At(new, Portal))
    /\ typed' = [typed EXCEPT !.clients = @ \ {old, new}]
    /\ Commit(r)
    /\ UNCHANGED <<cache, editing, moved, mailed>>

RenameProject(r, p, new) ==
    /\ renaming[r].pc = "idle"
    /\ path[p] \notin {NoPath, At(path[p].client, new)}
    /\ At(path[p].client, new) \notin Paths
    /\ LET old == path[p] to == At(path[p].client, new) IN
         /\ path' = [path EXCEPT ![p] = to]
         /\ aliases' = Record(Readdress(aliases, old, to), {to}, old, to)
    /\ Commit(r)
    /\ UNCHANGED <<clients, cache, editing, typed, moved, mailed>>

\* loadSlugAliases: read the rows, then put the map in place under the lock.
ReadAliases(r) ==
    /\ renaming[r].pc = "load"
    /\ renaming' = [renaming EXCEPT ![r] = [pc |-> "install", rows |-> aliases]]
    /\ UNCHANGED <<clients, path, aliases, cache, editing, typed, moved, crossed, mailed>>

InstallAliases(r) ==
    /\ renaming[r].pc = "install"
    /\ cache' = renaming[r].rows
    /\ renaming' = [renaming EXCEPT ![r] = [pc |-> "done", rows |-> NoAliases]]
    /\ UNCHANGED <<clients, path, aliases, editing, typed, moved, crossed, mailed>>

(***************************************************************************)
(* Two-statement edits.                                                    *)
(***************************************************************************)
\* handleClientCreateProject looks the client up before it parses the body.
CheckClient(e, p, c) ==
    /\ editing[e].pc = "idle" /\ path[p] = NoPath
    /\ c \in clients
    /\ editing' = [editing EXCEPT ![e] = [pc |-> "create", project |-> p, row |-> At(c, Portal)]]
    /\ UNCHANGED <<clients, path, aliases, cache, renaming, typed, moved, crossed, mailed>>

PortalCreateProject(e, s) ==
    LET p == editing[e].project
        a == At(editing[e].row.client, s)
    IN  /\ editing[e].pc = "create"
        /\ editing' = [editing EXCEPT ![e] = [NotEditing EXCEPT !.pc = "done"]]
        /\ IF a \in Paths \/ path[p] # NoPath
           THEN UNCHANGED <<path, typed, moved>>
           ELSE /\ path' = [path EXCEPT ![p] = a]
                /\ typed' = [typed EXCEPT !.projects = @ \cup {p}]
                /\ moved' = (moved \/ a.client \notin clients)
        /\ UNCHANGED <<clients, aliases, cache, renaming, crossed, mailed>>

ReadProject(e, p) ==
    /\ editing[e].pc = "idle" /\ path[p] # NoPath
    /\ editing' = [editing EXCEPT ![e] = [pc |-> "update", project |-> p, row |-> path[p]]]
    /\ UNCHANGED <<clients, path, aliases, cache, renaming, typed, moved, crossed, mailed>>

\* The slugs the body leaves empty are those read before.
UpdateProject(e, a) ==
    LET p == editing[e].project IN
    /\ editing[e].pc = "update"
    /\ \/ a.client = editing[e].row.client \/ a.project = editing[e].row.project
    /\ editing' = [editing EXCEPT ![e] = [NotEditing EXCEPT !.pc = "done"]]
    /\ IF a \in Paths \ {path[p]}
       THEN UNCHANGED <<path, typed, moved>>
       ELSE /\ path' = [path EXCEPT ![p] = a]
            /\ typed' = [typed EXCEPT !.projects = @ \cup {p}]
            /\ moved' = (moved \/ a # path[p])
    /\ UNCHANGED <<clients, aliases, cache, renaming, crossed, mailed>>

\* A restart loads the table (Handler) and ends what was in flight.
RestartSlugs ==
    /\ \E r \in Renames : Loading(r)
    /\ cache' = aliases
    /\ renaming' = [r \in Renames |-> IF Loading(r) THEN [pc |-> "done", rows |-> NoAliases]
                                      ELSE renaming[r]]
    /\ editing' = [e \in Edits |-> IF editing[e].pc \in {"create", "update"}
                                   THEN [NotEditing EXCEPT !.pc = "done"]
                                   ELSE editing[e]]
    /\ UNCHANGED <<clients, path, aliases, typed, moved, crossed, mailed>>

SlugsNext ==
    \/ \E p \in Projects : FulfilPortal(p)
    \/ \E c \in Slug : CreateClient(c)
    \/ \E p \in Projects, c \in Slug, s \in 1..Title : CreateProject(p, At(c, s))
    \/ \E r \in Renames : \/ \E old, new \in Slug : RenameClient(r, old, new)
                          \/ \E p \in Projects, s \in 1..Title : RenameProject(r, p, s)
                          \/ ReadAliases(r) \/ InstallAliases(r)
    \/ \E e \in Edits : \/ \E p \in Projects, c \in Slug : CheckClient(e, p, c)
                        \/ \E s \in 1..Title : PortalCreateProject(e, s)
                        \/ \E p \in Projects : ReadProject(e, p)
                        \/ \E c \in Slug, s \in 1..Title : UpdateProject(e, At(c, s))
    \/ RestartSlugs

SlugsSpec == SlugsInit /\ [][SlugsNext]_slugVars

-----------------------------------------------------------------------------
(***************************************************************************)
(* resolveSlugAlias: the pair first, then the client.                      *)
(***************************************************************************)
Aliased(f, a) == a \in DOMAIN f \/ At(a.client, Portal) \in DOMAIN f
Resolve(f, a) == IF a \in DOMAIN f THEN f[a] ELSE At(f[At(a.client, Portal)].client, a.project)
Hop(f, a) == IF Aliased(f, a) THEN Resolve(f, a) ELSE a
Arrival(f, a) == Hop(f, Hop(f, Hop(f, a)))

\* What an alias leads to exists, client and project, as long as every change
\* of an address was a rename: no chain of renames leaves a redirect to
\* nowhere. (PUT /api/projects/{id} records no alias.)
AliasTargetsLive ==
    ~ moved => \A a \in DOMAIN aliases :
                   /\ aliases[a].client \in clients
                   /\ aliases[a].project # Portal => aliases[a] \in Paths

\* A project a redemption has created is never hidden by the alias of another
\* one, whatever is renamed before and after: the router redirects aliases
\* before it looks at live addresses. (Slugs typed by hand are not protected.)
NotShadowed ==
    \A p \in Live : p \notin typed.projects /\ path[p].client \notin typed.clients
                      => ~ Aliased(aliases, path[p])

\* "renames record an alias so emailed URLs keep working" (slugs.go): the
\* address a buyer was mailed leads to the book, directly or by redirects.
EmailedURLsWork ==
    \A p \in Live : mailed[p] # NoPath /\ p \notin typed.projects =>
                        Arrival(aliases, mailed[p]) = path[p]

\* Redirects never go round in circles: whatever is renamed, and typed over old
\* names, three of them lead to an address that is not redirected.
RedirectsEnd == \A a \in Address : ~ Aliased(aliases, Arrival(aliases, a))

\* Once renames that did not overlap have answered, the router redirects by
\* the table.
RouterFollows == ~ crossed /\ (\A r \in Renames : ~ Loading(r)) => cache = aliases

\* What the alias table answers for, after any renames and typed slugs: its
\* redirects end, at something that exists, hide no project that a redemption
\* made, and are those the router follows (slugs.go).
SlugsSafe ==
    /\ SlugsTypeOK
    /\ AliasTargetsLive
    /\ NotShadowed
    /\ RedirectsEnd
    /\ RouterFollows
=============================================================================
