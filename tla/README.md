# A verification project for the jdbb book factory

The repository is the server of a small publishing studio: customers buy a
*Factory Pass*, upload a manuscript, and have it typeset into proofs and a
metered number of finals, while the studio edits transmittals, specs, style
sheets and calendars beside them. This directory holds TLA+ models of the parts
of that server where actors meet over shared rows or where an algorithm is hard
to get right, TLC runs on small instances of them, and TLAPS proofs of the
invariants that matter most for every instance.

Everything is translated from the code. Paths below are relative to `src/`.

## 1. How the server runs, and what that means for a model

* One Go process. `net/http` runs a goroutine per request; builds, index drafts,
  EPUB runs, mails and the store poller are goroutines of their own.
* One SQLite database behind **one** connection (`db/db.go`,
  `SetMaxOpenConns(1)`). A statement is atomic and so is a transaction. Hardly
  any handler opens a transaction, so everything *between* two statements of a
  handler interleaves with everybody else. In the models an action is one
  statement (or one transaction) together with the Go code up to the next one.
* A statement of a handler runs under `r.Context()`: a client that goes away
  makes the next statement fail. Background work runs under
  `context.Background()` or under a deadline.
* The process may stop at any point. Rows survive, goroutines and maps do not,
  and no start-up code repairs a row. Migrations run before the server listens.
* External parties: pandoc, typst and Python scripts (run with a deadline,
  `srv/toolexec.go`), Stripe (`srv/stripe.go`), the mail provider, an LLM API.

## 2. Inventory

| Component | State | Operations | What is hard | Module |
|---|---|---|---|---|
| Metered builds (`srv/books.go`, `srv/passes.go`) | `books.status/build_kind/project_id`, `buildSem` | upload, convert, build, fail and refund, delete, link | the claim under races; who may write `status`; builds hold one of two slots and end | FactoryBuild |
| Pass credits (`srv/passes.go`) | `passes.builds_used/builds_extra/status`, `pass_ledger` | access check, reserve, debit, refund, grant, attach, revoke | the last credit; refund matches charge; ledger explains the counter | FactoryBuild |
| Artifact store (`srv/books.go`, `srv/epub.go`) | `book_outputs` | insert, prune by kind and by format, rate limit, admin EPUB | pruning never takes a final or the newest row | BookOutputs |
| Index status (`srv/index.go`) | `books.index_status/index_json` | draft, review, include in a build | read-decide-write by three kinds of actor; a run ends | IndexDraft |
| Index content (`srv/indexer/`) | the stored entries, markers in the manuscript | draft, consolidate, tidy, review; chunk, anchor, place | no locator lost, references resolve, markers land where the words are | IndexEntries, IndexPlaces |
| Store fulfilment (`srv/store.go`) | `store_orders`, `passes.stripe_session_id`, poller's `since`, `store.mu` | thanks page, poller cycle, pass or add-on, order row, mail | exactly once under retries, dead contexts, restarts; every paid session served | StoreFulfilment, Delivery |
| Coupons (`srv/passes.go`) | `coupons`, `passes`, cohort | issue, expire, redeem | the last use; attribution | Workshop |
| Registrations, announcements (`srv/registration.go`) | `event_registrations`, `event_announcements` | register, edit, announce | nobody twice, nobody with a hole, log and letters agree | Workshop |
| Rate limits, notifier (`srv/registration.go`, `srv/email.go`, `srv/transmittal_notify.go`) | maps in memory | allow, prune, notify | windows of different length in one map; clearing on failure | Throttle |
| Sign-in (`srv/login_links.go`, `srv/passes.go`) | `login_links`, `clients.password_hash`, `auth_tokens` | request, open, reset, mint token | burn once; a reset kills outstanding links | SignIn |
| Slugs (`srv/slugs.go` and callers) | `clients.slug`, `projects.*_slug`, `slug_aliases`, the router's map | sale, create, rename, redirect | aliases never shadow, loop or dangle; map follows table | Slugs |
| Transmittals (`srv/transmittal.go`) | `transmittals`, `transmittal_versions`, `projects.name` | open, save, restore, duplicate | no text that stood for long is lost | Transmittal |
| Book specs (`srv/bookspecs.go`, `srv/chapter_detect.go`) | `book_specs` | sync, pull, edit, cover, suggest | the newer of two wins, by timestamps of whole seconds | BookSpec |
| Style sheets (`srv/project_stylesheet.go`, `srv/stylesheet.go`) | sheet kind and rules, proposals | seed, switch kind, prune, edit, accept, restore, resolve | a client decision is never overwritten | StyleSheets |
| Calendars (`srv/server.go`) | `projects.start_date`, `tasks` | create, edit, seed, duplicate | copies keep the shape of the schedule | Calendar |
| Book map (`srv/bookmap.go`, `typesetting/filters/`) | none (a pure reading of the manuscript) | classify, count, drop | two programs count the same paragraphs | BookMap |
| Corrections and build stages (`srv/corrections*.go`, `srv/books.go`, `srv/epub.go`) | `corrections`, the spec's title, artifacts | create, settle, delete; each stage of a build | rows read anew by every stage | BuildStages |
| Letters, journal, file log (`srv/*email*.go`, `srv/journal.go`, `srv/filelog.go`) | `file_log`, `journal`, `outbound_email` | compose, send, log | two parts by two functions; rows read one query at a time | Mail |
| Preflight, pages, help, admin lists, docs editor, rights, images, start-up | logs, files | rendering and I/O | section 8 | none |

Interactions: `handleConvertBook` reads the pass and the finals gate, claims the
book, debits the pass and starts the build; the build writes `book_outputs` and,
when it fails, reads the book row *again* to decide on the refund. Each stage of
a build reads corrections and spec anew (BuildStages), after the spec was
refreshed from a final transmittal (BookSpec). Index drafts and builds read each
other's status. The store mints passes through the same `fulfillPass` that
coupon redemption uses, and `fulfillPass` gives out slugs.

## 3. Modules

### FactoryBuild: `POST /api/books/{id}/convert` and the credit account

A member of `Requests` is one POST and the build it starts. `pc[r]` names the
statement it is about to execute; `job[r]` is the row `GetBook` returned, on
which handler and build go on working.

| Action | Code |
|---|---|
| `GetBook`, `CheckAccess`, `CheckInFlight`, `Refuse` | `handleConvertBook` up to the 402/409/429s, `requirePassAccess` |
| `UpdateBookBuildKind`, `ClaimBookForBuild` | the unconditional write of `build_kind`; the conditional claim (`db/queries/passes.sql`) |
| `ReserveBuildCredit`, `DebitRow`, `Unclaim` | `reserveBuildCredit` or `debitBuildCredit`, the ledger row, `unclaim` |
| `AcquireBuildSlot`, `StoreOutput`, `ToolFails`, `MarkReady` | `runConversion`, `finalizeBuild`, `runEPUBBuild` |
| `MarkError`, `RereadBook`, `LookupPass`, `RefundBuildCredit`, `RefundRow` | `failConversionAt`, `refundBuildCredit` |
| `Disconnect`, `DBError`, `Crash` | a cancelled request context, a failing background statement, a restart |
| `UploadBook`, `DeleteBook`, `LinkBookProject`, `AttachPass`, `GrantPassBuilds`, `AddPassExtras`, `SetPassStatus`, `SetFinalsGate` | the administration of the same rows; `AddPassExtras` is the store's add-on or cart, which adds builds without a ledger row |

`charged`, `repaid`, `waived`, `stored`, `unposted`, `unlisted`, `clamped` and
`moved` are history variables: no guard reads them. `waived` counts the charges
the code makes *on purpose* without a balance check (an admin's build, or the
finals gate switched off), `stored` holds the requests whose file is in
`book_outputs` whatever their status says, `unposted` those that lost a ledger
row to a fault, `unlisted` the builds bought in the store, `clamped` the refunds
that met the clamp at 0, and `moved` the books that changed project or got a
pass after the upload. What pandoc and typst do is succeed or fail. The constant
`Events` selects which administration and faults an instance includes; the
theorems quantify over it.

Three properties say what the account comes to, with the exceptions the code
has written into them. `DeliveredWithinAllowance` counts PDFs that can be
downloaded, those of builds whose last status write failed included, against the
allowance, the waived charges and the refunds that were not due.
`RefundOnlyCharged`: a refund goes to the pass that was charged for this build,
unless a POST of the other kind rewrote `build_kind` or the book is in `moved`.
`LedgerMatches`: the ledger's sum is the balance, but for builds bought in the
store and for rows that are about to be written or were lost; the clamp swallows
no more than strayed refunds had taken; no build runs whose debit has no row.

### BookOutputs: the artifact rows

Inserts, the two pruning statements, the proof rate limit that counts rows, and
the admin's separate EPUB generation, which is neither claimed nor pruned.
`made` is the history of all rows. The build is one process, because
`FactoryBuild!OneBuildPerProject` says so. `OutputsSafe` is the type with
`FinalPDFsKept` (pruning takes no final) and `NewestKept` (nor the newest row of
a kind).

### IndexDraft: the index status machine

One book. `Drafts` are POSTs with the run they start, `Reviews` are PUTs. A
document is named after the actor whose entries it holds. `Expire` is the
timeout of a run, whose failure note goes through the expired context and is
therefore not stored; `Crash` leaves the rows and takes the runs. A PUT may carry
an empty list, which `handlePutBookIndex` accepts (`blank` remembers those).
`IndexSafe` is the type with `StatusTellsDoc`: whatever the interleaving, the
status names whose document is stored: none while `off`, a run's while `draft`,
a reviewer's while `reviewed`, and after `error` what the failed run had found
when it began. That an included index has entries is not so (section 7).

### IndexEntries: what an index holds (`srv/indexer/draft.go`)

`DraftChapter` is one round of `Draft`'s loop with whatever the model answered,
`FinishDraft` the consolidation reply (`consolidate`) and `Tidy`, `PutBookIndex` a
reviewer's PUT with `validateIndexEntries` and `Tidy` again. The passes of `Tidy`
are operators named for them: `MergeIdentical`, `Tidied`, `CrossRefs`,
`SortEntries`. `crossRefs` ranges over Go maps, so it is a *set* of results.
`EntriesSafe`: `RefsProper` (a reference leads to a heading that is there, never
to itself, and "see" stands alone), `AnchorsKept` (no locator lost unless its
heading was dropped on purpose), `LookupsKept` (a merged heading is still found
under its wording, or under a heading that shares a word with it). The histories
say whom that promise is for: `lookups` leaves out headings moved under another
and those whose chain of renames does not end, `chained` those merged into a
heading that went elsewhere itself, of which `WordingsKept` would speak
(section 7).

### IndexPlaces: where the locators land (`srv/indexer/anchor.go`)

A manuscript is a sequence of lines, each of some level (a heading or text).
`RunIndexDraft` cuts it where `Chunks` does: at every line that *reads* like a
heading, a repeated line of text included, and by length. It takes any run of
words of a chunk as an anchor; `UploadSource` replaces the file;
`ApplyIndexMarkers` is the `PlaceMarkers` of a later build, with the search order
of `findAnchor` (chapter, whole text, shortened anchor) and its shift for front
matter before the first heading. The search is for bytes, not words: the
constants `WordTails` and `WordHeads` say which words end, or begin, with which
others, so an anchor may be found in the middle of a longer word. `PlacesSafe`:
`OnItsWords` (a marker follows the bytes of at least `MinAnchor` words of its
anchor), `FoundWhereverItIs` (an anchor that occurs once is found there),
`DraftedIsFound` (in the file it was drafted from, every anchor is found whole)
and `LandsAtHome` (there, and where chapters and chunks agree, in its chapter).

### StoreFulfilment and Delivery: paid sessions into passes and add-ons

Callers of `fulfillStoreSession` are the thanks-page requests and the poller.
`mu` is `store.mu`; `ctx[p]` says whether the caller's context is alive; `since`
and `queue` are the poller's. Passes are committed first and their order row
later; add-ons commit with their row. `lost` records order rows that were never
written. Stripe (`Pay`, `Tick`) is external: a session is paid at a time, and
its event is listed from then on. Mail is a goroutine that can fail or die.

`Delivery` is the promise in the comment on `fulfillStoreSession`, as a
specification of three actions: a session is paid, its goods are delivered once,
the delivery is recorded, and for an add-on delivery and record are one step.
`OnceOnly` says that StoreFulfilment implements it (`INSTANCE Delivery WITH` the
goods of a session for `delivered` and the order rows for `recorded`).

### SignIn: links, resets and tokens

| Action | Code |
|---|---|
| `CountLinks`, `InsertLink` | `issueLoginLink`: the count in the window, then the row |
| `ReadLink`, `BurnLink`, `SetCookie`, `AbandonOpening` | `handleAuthLink`: the row, the conditional UPDATE, the session |
| `UpdatePassword`, `BurnOutstanding`, `BurnFails` | `handleAdminResetClientPassword`, two statements, of which a failure of the second is logged and answered like a success |
| `DeleteTokens`, `CreateToken`, `CreateTokenFails` | `mintProjectToken`, two statements |

`SignInSafe`: `LinkOnce`, `ResetEndsLinks`, `GateHeld`. `ResetEndsLinks` speaks of
the resets whose second statement was carried out (`ResetsDone`); of the others
see section 7.

### Slugs: addresses, renames and redirects

`FulfilPortal`, `CreateClient`, `CreateProject`, and `CheckClient` with
`PortalCreateProject` give addresses out; `ReadProject` and `UpdateProject` are
PUT `/api/projects/{id}`, which reads and writes in two statements and records no
alias; `RenameClient` and `RenameProject` are the two transactions;
`ReadAliases` and `InstallAliases` the reload of the router's map;
`RestartSlugs` a restart. `SlugsSafe`: `AliasTargetsLive`, `NotShadowed`,
`RedirectsEnd`, `RouterFollows`.

### Workshop: registrations, coupons, announcements

`Register` with its mail goroutine `ConfirmRegistration`; `ReadRegistration` and
`WriteRegistration` (the admin's edit); `IssueCoupon`, `ExpireCoupon`,
`RedeemCoupon` (one transaction of `fulfillPass`, with the attribution to a
registration); `StartBatch`, `LoadRecipient`, `MergeBatch`, `SendLetter`,
`StampRow`, `FinishBatch`, `LeaveBatch` (`handleAdminSendAnnouncement`).
`CouponsSafe`: `CouponSpentOnce`, `CohortFollowsCoupon`. `MailingsSafe`:
`FirstMailRefers`, `LetterOnce`, `NoHalfBatch`, `LogIsTrue`.

### Throttle: the sliding windows and the notifier

`Arrive` and `AskLimiter` (a sign-in asks by address and by target, a nit by
address and for the day), with the pruning of other callers' keys in the same
call; `MaybeNotify` and `SendNotice`, which clears the throttle when the call to
the provider returns an error, whether nothing was sent or the mail was taken and
only the answer was lost (`unanswered`). `ThrottleSafe`: `WindowHolds` (a key is
admitted no more often than its limit within the *shortest* window of its
limiter, whoever prunes), `MapForgets`, `NotifiedApart` (a notice comes no sooner
than `NotifyGap` after one the server knows it has sent).

### Transmittal and BookSpec: what a book is to be, and what a build reads

Transmittal: `OpenTransmittal`, `SaveTransmittal` (one transaction, with
`maybeSnapshotVersion` and its prune) followed by `RenameBook` or `AbandonSave`,
`RestoreVersion`, `DuplicateTransmittal`. A text is named by the write that first
made it, so a restore is a new write of an old text. `TransmittalSafe`:
`HistoryIsNewest`, `AttestationOwn`, `NameFollowsTitle`. `HistoryKeeps` is an
action property: `LongStandingKept` (an overwritten text that stood for the
window is in the history) and `RestoreUndoable`.

BookSpec extends it. `SyncReadsTransmittal`, `SyncReadsSpec`, `SyncCreates` and
`PullReadsTransmittal`, `PullReadsSpec`, `PullWrites` are the statements of
`syncSpecFromTransmittal` and `pullTransmittalIntoSpec`; `StartPull` is the
admin's; `TouchReads` and `TouchCreates` the get-or-create in front of `PutSpec`,
`PutCover` and `PutSuggestions`; `DeleteCover`. Time is in whole seconds, as
SQLite's `CURRENT_TIMESTAMP`. `SpecSafe`: `SyncIsCurrent`, `LateEditsWin`,
`CoverKept`. `SyncIsCurrent` is about every row a completed sync may answer with:
a text older than the final it found is possible only in a row that defaults, the
studio or a pull across a second's boundary stamped later than the transmittal.
That those exceptions bite is `FinalReachesSpec` in section 7.

### StyleSheets: a project's rules and the review of the house text

A visit is a GET or PATCH: `BeginVisit`, `EnsureSheet`, `SeedRead`, `UpdateKind`,
`PruneOtherKinds`, `SeedKind`, `ShowSheet`, or `LeaveVisit` in between.
`ReadRule` and `WriteRule` are the two statements of a rule's PATCH, `AcceptAll`,
`AddRule`, `DeleteRule` and `RestoreRule` one each. The review tool:
`SupersedePending` and `InsertEdit` (two statements), `FindPending` and
`ResolveEdit` (a read, then a transaction). `SheetsSafe`: `StatusFollowsText`,
`ShownComplete`, `ReviewSettled`. `DecisionsKept` is an action property: no step
of a visit changes a rule the client has edited, rejected, annotated or added.

### Calendar: schedules and their copies

`CreateCalendar` and `DuplicateCalendar` are transactions; `MoveStart`,
`CreateTask`, `ReadTask` with `UpdateTask` or `DeleteTask`, `StartSeed` and
`SeedTask` statement by statement. A date has a form, since `shiftDate` takes a
day or a time stamp and leaves anything else alone. The body of a POST or PATCH
carries the planned and the current date independently (`TaskBody`).
`CalendarSafe`: `ShapeKept` and `CopyStartsAfresh` (in a copied calendar no task
is done and each is due on its planned, shifted date, however its original had
slipped).

### BookMap: two programs count the same paragraphs

The author types a manuscript paragraph by paragraph; after each, `BuildBookMap`
is what `bookMapFromDOCX` reads of it and `Printed` is what
`docx-to-typst-enhanced.lua` does with the map's *counts* over the blocks pandoc
makes of the same file. The two count differently. `made` says what the filter
has turned a paragraph into before `apply_book_map` counts: a counted block, a
raw wrapper that counts 0 (an ornament, a section-break style, a list item set
by hand), nothing at all, a line of a verse run that is one block, or a cell of
a table that is one block while the map counts its paragraphs. `Weight` is
`block_para_count` of the block, `Consume` the filter's loop over one piece and
`Held` the paragraphs a cut cannot part from what stands before them.

`MapSafe`: `BreaksCarried`, `PiecesAreWhole`, `NamesOnce`, `OrderKept`.
`PrintSafe`: `PrintFollowsMap` (each paragraph is printed where the map puts it,
and nothing else is, but for the `Loose` ones: paragraphs held together, those
that were made nothing, and those before the first heading from the first on
that does not count 1), `PrintStaysNear` (those too are printed in an earlier
piece, or in their own section or the next), `RealTextKept` (outside `Loose`
nothing with real text is dropped but what the map drops as real) and
`GateMatchesPrint` (the gate on finals, `keptWordsForBook`, finds no words just
when print sets none, where every heading has words and is printed). pandoc
itself is external, modelled from how the filter uses its output: quotes made by
a style stay a Div of one counted block, quotes made by indentation are raw, and
lists are not nested.

### BuildStages: rows read anew by every stage

A print build loads the pending corrections, patches the manuscript, reads and
patches the title, reads the map, stores the PDF with a snapshot of the
corrections, then does it all again for the EPUB; an admin's EPUB run starts
there. Meanwhile corrections are created, settled and deleted and the spec's
title is edited. A title is a point of a small set and a correction a map on it.
No failure along the way stops a build: `LoadOutcomes` are those of
`applyCorrectionsIfAny` (the load fails, the file cannot be written, the patcher
fails, or the manuscript is patched), `SpecReads` and `ReadFault` those of the
spec, and `faults` records them on the artifact. `StagesSafe`: `OneLedger` (an
artifact holds corrections that were all pending at one moment of its run, or
none, in text, pairs and snapshot alike, if they could not be loaded),
`BodyIsRecorded` (what was patched is what is recorded) and `TitlesAgree` (PDF
and EPUB of a run that nobody edited under, and whose reads failed alike, bear
one title).

### Mail: one story in two parts

Rows of tasks, file log, journal and transmittal grow and shrink while a letter
reads them one query at a time. The HTML and the text of each letter are *sets
of facts*, translated from the two functions that write them. `MailSafe`:
`TallyMatchesTable`, `PartsAgree`, `DigestAddsUp` (each total is the number of
rows of its kind listed below it), `AuditCopy` (the studio gets the copies a
request addresses to it, or one), `ReportTruthful`.

### Compositions

`MCPortal` and `MCOffice` put these modules behind one initial choice, `desk`:
desks share no row (transmittals and specs do, and are composed in BookSpec), so
interleaving two of them would multiply states and reach nothing new. A step is
a step of one module with all others unchanged. `MCLiveness` does the same for
the store and the index, with each module's own fairness. `MCFactoryBuild`
declares symmetry, `MCBookMap` lists what an author may type.

### Proofs

| Module | Proves about |
|---|---|
| `FactoryBuildProofs` | FactoryBuild |
| `StoreFulfilmentProofs` | StoreFulfilment and its refinement of Delivery |
| `PortalProofs` | SignIn, Slugs, Workshop, Throttle |
| `MailProofs` | Mail |
| `ShelfProofs` | IndexDraft, BookOutputs, IndexPlaces, IndexEntries, BookMap |
| `TransmittalProofs`, `BookSpecProofs` | Transmittal, and BookSpec on top of it |
| `StudioProofs` | StyleSheets, Calendar, BuildStages |

A module that proves about several others only collects them: their variables
are disjoint and each theorem is about one specification. `Positions` has no
state: it holds the loops that BookMap, IndexPlaces and IndexEntries share (the
places of a set in order, what stands there, a sum over a sequence).

## 4. Runs

| Run | Properties | What it shows |
|---|---|---|
| `factory_exclusive` | `TypeOK`, `OneBuildPerBook`, `NoOverspend`, `DeliveredWithinAllowance`, `RefundOnlyCharged`, `LedgerMatches`, `ReleasedByOwner` | one book, two POSTs of either kind by customer or studio, passes attached and extended, the book moved and deleted, the gate switched, all faults |
| `factory_project` | `OneBuildPerProject` | three finals of two books of one project, all faults |
| `factory_account` | `FailedFinalRepaid`, `BuildEnds` | two finals of two books compete for one slot and may fail; passes revoked and extended; without faults every build ends and a failed one is repaid |
| `store_once` | `TypeOK`, `FulfilledOnce`, `OrderBacked`, `WorkUndone`, `OnceOnly` | a pass and an add-on session, two thanks pages, the poller, two faults of any kind; the refinement of Delivery |
| `liveness` | `DraftingIsHeld`, `DraftingEnds`, `PaidFulfilled`, `BuyerMailed` | without faults drafts end, everybody who paid is served and mailed |
| `portal` | `SignInSafe`, `SlugsSafe`, `CouponsSafe`, `MailingsSafe`, `ThrottleSafe`, `IndexSafe`, `OutputsSafe`, `ProofsBounded`, `ReadyHasPDF`, `MailSafe` | the desks a customer meets |
| `office` | `TransmittalSafe`, `SpecSafe`, `SheetsSafe`, `CalendarSafe`, `EntriesSafe`, `PlacesSafe`, `MapSafe`, `PrintSafe`, `StagesSafe`, `HistoryKeeps`, `DecisionsKept` | the desks the studio works at |
| `factory_refund_kind`, `index_timeout`, `store_disconnect`, `slugs_renamed_back`, `epub_bylines` | violated | section 7 |

**Bounds.** Races here are between two requests, or a request and a build, over
one or two rows, so two of each exhaust them; three appear where a property
needs a third (two finals to use up the allowance and one to exceed it, three
token rolls, three proposals and decisions).

* *Factory and store.* Keeping one included final makes the last credit happen
  in every short behaviour, and one more build, granted or bought, makes it come
  back. `factory_exclusive` has six million states as it is, so revoking a pass
  (`passlive`) is left to `factory_account`. Two sessions let one event overtake
  another and two faults let a retry fail as well; `MaxTime = 2` allows equal
  and different event times, and `Lookback` covers the whole clock as 72 hours
  cover an outage. `Limit` keeps its value 100: no run overflows a page.
* *Portal.* Links live one tick, the rate window is one tick with one link, the
  clock ends at 2; two resets, so that one whose second statement fails can be
  followed by one whose does not. Two client slugs, two book numbers and a typed
  title, two renames and one creation or PUT: enough to leave a slug and come
  back. Two addresses, one of them the smoke persona, one coupon, one batch with
  a repeated id. Limits of 1 and 2 over spans of 1 and 3 so that one caller
  prunes another's longer window, which the day's key has. Two drafts, two
  reviews, each with entries or without, builds, timeouts, restarts. One proof
  and one EPUB kept, four rows. One letter over two projects and two rows.
* *Office.* Two versions kept, a window of one tick, four writes at the
  transmittals' desk; at the specs' desk two writes, a clock of one, two syncs
  and one touch, and a PUT of a transmittal ends before anything else happens
  (what follows its commit concerns the project's name alone). One rule of each
  class and two texts, two visits, one patch (three visits were checked once:
  they showed that a PATCH that begins while another is under way counts as
  overlapping it, and the proof holds for any number). Two calendars, four task
  ids, one copy; two bodies, one of a task that has slipped, one of a task that
  is done and was planned without a date. Two draft chapters out of six replies,
  seven consolidation replies, two reviews. Twelve manuscripts that repeat a
  phrase in each place that matters, have a line of text that reads like a
  heading, or hold the end or the beginning of a word of the anchor inside a
  longer one; two uploads. Manuscripts of four paragraphs out of twenty-one
  kinds, 204,000 of them (`epub_bylines` has the plain kinds only). One run, of
  either kind, two corrections, four edits: enough for every pair of reads of a
  run to be parted by an edit and for each read to fail.

**Symmetry** is declared in runs without liveness only, over ids that no
operator orders: the ids of FactoryBuild; in `portal` the links, openings,
resets, redemptions, books, renames, drafts and callers, which are the same two
values; in `office` the visits, saves, syncs and task editors, likewise.

**Deadlock** checking is off where a model may stop because its requests are
used up or its counters have reached their bounds; it is on for `store_once`,
whose poller never stops.

**Fairness.** Weak fairness of every handler, build and run step: goroutines are
scheduled, statements return, and external tools run under a deadline
(`srv/toolexec.go`, `indexDraftTimeout`). Strong fairness of `AcquireBuildSlot`
and of the store's `Lock`: senders blocked on a Go channel are served in order,
and a Go mutex does not starve a waiter. Nothing is assumed of people: nobody
need pay, return to the thanks page, or post again.

**Mutants.** Each property is paired in `PROJECT.json` with a plausible bug (an
operator `X_...` beside the operator `X`) under which its run fails.

## 5. Theorems

For all values of the constants that satisfy the assumption named in each module
(`FactoryAssumption`, `StoreAssumption`, ...): any number of requests, visits,
runs, callers, projects and rows, any texts, dates, titles and limits. The
assumptions say what the configuration and the database guarantee: limits are
natural numbers, a table's ids are positive and finitely many have been given
out, keys of different kinds differ.

| Theorem | Statement |
|---|---|
| `FactoryBuildProofs!TypeCorrect` | `Spec => []TypeOK` |
| `BookExclusion` | `[]OneBuildPerBook`, with every fault and all administration |
| `OwnerReleases` | `ReleasedByOwner`, likewise |
| `ProjectExclusion` | `[]OneBuildPerProject` if books are not moved (`"link" \notin Events`) |
| `BalanceKept` | `[]NoOverspend` |
| `RefundsMatchCharges` | `[]RefundOnlyCharged`, with both kinds, every fault and all administration |
| `FinalsWithinAllowance` | `[]DeliveredWithinAllowance`, likewise, for finite `Requests` |
| `FailedFinalsRepaid` | `[]FailedFinalRepaid` where only finals are built and books and passes stay where they are (`FinalsUnmoved`), no book is deleted and no statement of a refund fails (`RefundsRun`); disconnects and crashes included |
| `LedgerExplains` | `[]LedgerMatches`, with every fault and all administration, for finite `Requests` |
| `StoreFulfilmentProofs!TypeCorrect` | `Spec => []TypeOK` |
| `ExactlyOnce`, `OrdersBacked`, `WorkIsUndone` | `[]FulfilledOnce`, `[]OrderBacked`, `[]WorkUndone` |
| `PromiseKept` | `Spec => OnceOnly`: StoreFulfilment implements Delivery |
| `SignInIsSafe` | `[]SignInSafe` |
| `AddressesAreSafe` | `[]SlugsSafe` |
| `CouponsAreSafe`, `MailingsAreSafe` | `[]CouponsSafe`, `[]MailingsSafe` |
| `LimitsAreSafe`, `NotificationsApart` | `[]ThrottleSafe`; `[]NotifiedApart`, its part about notices, by itself |
| `LettersAreSafe` | `[]MailSafe` |
| `IndexIsSafe` | `[]IndexSafe`, with every fault |
| `DraftingIsOfARun` | `[]DraftingIsHeld` where runs neither expire nor die (`Faults \subseteq {"build"}`) |
| `OutputsAreSafe`, `ProofsAreBounded`, `ReadyIsThere` | `[]OutputsSafe`, `[]ProofsBounded`, `[]ReadyHasPDF` |
| `PlacesAreSafe` | `[]PlacesSafe`, for any files, anchors and chunk sizes, and any words inside words |
| `MapIsSafe`, `PrintIsSafe` | `[]MapSafe`, `[]PrintSafe`, for every manuscript, whatever the filter makes of its paragraphs |
| `EntriesAreSafe` | `[]EntriesSafe`, for any drafts, consolidation replies and edits |
| `TransmittalIsSafe`, `TransmittalHistoryKeeps` | `[]TransmittalSafe`, `HistoryKeeps` |
| `SpecsImplementTransmittals` | `BookSpecSpec => TransmittalSpec` |
| `BookSpecIsSafe` | `[]SpecSafe` |
| `SheetsAreSafe`, `DecisionsAreKept` | `[]SheetsSafe`, `DecisionsKept` |
| `CalendarsAreSafe` | `[]CalendarSafe` |
| `StagesAreSafe` | `[]StagesSafe`, with every read and patch that may fail |

The premises of the conditional theorems are those of the runs that check the
property; section 7 has the counterexample of what each leaves out, where the
code has one.

Why the properties need strengthening:

* `OneBuildPerBook` speaks of requests, the claim looks at the row. `ClaimInv`
  adds that the row of a held book says `converting`, so that the claim of
  anybody else fails, and every release is a write by the holder.
* `OneBuildPerProject` follows from a statement about rows alone: no two present
  books of a project say `converting` (`ProjectInv`, with `ClaimInv` to carry it
  back to requests). Moving a book breaks it, hence the premise.
* `RefundOnlyCharged`: a build whose book was neither moved nor asked for in the
  other kind finds the row as its handler saw it, so that the refund reads the
  kind, project and pass the charge was made by (`RowsInv`, by the statement a
  request is at); a build on its way to the refund has been charged exactly if it
  is a final of a paying project (`ChargeInv`). The two exceptions only grow
  (`ExcusesStay`). `FailedFinalRepaid` adds, where there are none, what
  `failConversionAt` has handed back at each of its statements (`RepaidInv`).
* `DeliveredWithinAllowance` counts: `builds_used` and the refunds are the charges
  and what the clamp swallowed, and the clamp swallows no more than refunds that
  strayed here (`CountInv`). A stored final was charged, so either its charge
  stands, among the `builds_used` that `NoOverspend` bounds, or its refund is one
  of `Unearned`. The proof carries the cardinality of these sets.
* `LedgerMatches` is the equation of ledger and balance (`BalanceInv`) beside
  `CountInv`. Each statement changes one side of it, and `Owed` or `Due` take the
  difference until the row is written, for good if a fault loses it. An `unposted`
  request was turned away or repaid, as `ChargeInv` says of the steps at which a
  row may be lost.
* The store's invariant says that at most the holder of the mutex is inside
  (`Serial`), that what a caller has learned stays true while it is inside
  (`Knows`), that goods and order rows correspond (`Goods`, `Backed`), and that a
  minted pass without a row is being recorded or was lost (`Accounted`).
* `PromiseKept` takes that invariant through a step simulation. A step that pays
  is `Delivery!Pay` (sessions are paid at a time the clock has begun to count,
  `ClockRuns`); one that fulfils is `Deliver`, because `Goods` and `Knows` say
  nothing was delivered; one that writes the order row is `Record`, because the
  caller inside has delivered; every other step, faults included, stutters.
* `SignInSafe`: a redemption that has burned its link holds a used row and nobody
  else has burned it (`LinkInv`); a live link was made knowing every reset that
  has burned the links outstanding, and a redemption follows, of those, only
  resets its link knows (`KnownInv`). A reset whose burn failed is in neither.
* `SlugsSafe`: `RedirectsEnd` is a fact about paths in the alias table. It
  follows from three facts that every rename keeps (`TableInv`): no target is an
  old address, a client's alias leads to a client, and an alias leaves its
  client only if that client has one. `RouterFollows` needs to know which
  reloads have read the table since the last rename.
* `CouponsSafe` and `MailingsSafe`: a waiting mail of a first registration
  carries the id of its row (`RegsInv`); a coupon's count is that of its passes,
  none or one (`CouponInv`); a batch's recipients still to come are distinct and
  none has had a letter, but for the one about to be stamped, and nothing was
  sent before the merge found no hole (`BatchOK` in `MailingsInv`).
* `ThrottleSafe`: `allow` throws hits away while it answers, so the count of
  admissions cannot be read off the map. `LimitersInv` says that a key's list is
  the *end* of what the key was ever admitted, and that everything before has
  left the window of whoever prunes it.
* `MailSafe`: a digest's totals are kept while its projects are read one query
  at a time, and a project may drop out between its two lists. `LetterOK` says
  that the totals count the rows read so far but for the files of the project
  whose journal comes next, and that nothing has been read of the projects still
  to come. What a finished letter says follows by counting: the rows of the
  listings and the facts that name them correspond one to one (`FactsCounted`),
  and the three labels of a task share a table's rows out (`TallyOfSeq`).
* `IndexSafe` is inductive as it stands, once a run is known to put back a
  document of a run or a reviewer, or the empty one; `DraftingIsHeld` needs that
  whoever said `drafting` last is still at it or was lost to a fault
  (`DraftingAccounted`). `OutputsSafe`, `ProofsBounded` and `ReadyHasPDF`: ids
  are given out in order and once (`IdsOK`), only the book whose prune is due
  may have a proof too many (`OneOverdue`), and from the moment its PDF is
  stored a build has one on the shelf (`HasPDF`), because at least one is kept.
* `TransmittalSafe` and `HistoryKeeps`: the log is in order of time as of ids and
  the text that stands is no older than its last version (`LogOrdered`,
  `RowsPast`); every
  text and version is its own book's (`RowsOwn`); the name shows the title or a
  PUT is about to write it (`NamedOrPending`). Pruning the newest of what pruning
  left is a lemma about sets of ids (`NewestIdsGrown`). `SpecSafe` sits on top:
  what a sync or pull has read and when, against the seconds of both rows
  (`SyncsOK`, with `CrossOK` for two of them at once).
* `SheetsSafe`: `ShownComplete` is about visits nobody disturbed, so the
  invariant follows such a visit statement by statement (`Undisturbed`).
* `CalendarSafe` is about pairs of tasks. `InStep` relates two rows of a batch
  and is kept because a copy shifts both by the same days; `RowFits` ties a row
  to its project.
* `StagesSafe`: `TitlesAgree` compares two artifacts stored at different times.
  `RowQuiet` says of a run nobody has edited under what its row holds at each
  stage: the corrections pending now, or none if the load failed, and, if
  repeating them changes nothing, the title corrected from what the spec says
  now. Two artifacts of such a run whose reads failed alike are then made from
  the same two things (`Agree`).
* `PlacesSafe` is a fact about two walks over one text. A chunk is a stretch of
  the file, whatever lines it was cut at, so an anchor taken from it is found
  whole somewhere; where chapters and chunks agree, chunk `n` is the range
  `ChapterRange` gives for `n`, so the search in the chapter succeeds before any
  other. `PlacesInv` keeps that every stored anchor was so taken, and that
  `placed` is what `PlaceMarkers` makes of the file that stands.
* `MapSafe` and `PrintSafe`: map and print are functions of the manuscript, so
  the invariant only says so (`BookMapInv`), and what is proved are their
  properties for every manuscript: what `Paras` carries, that the blocks before
  the first heading cut that stretch in order (`CutBounds`), and what the filter's
  loop has passed when it takes up a piece: never more than the pieces before it,
  and exactly those while every paragraph was made one block (`ConsumeCounts`,
  `Counting`). The spans cut the rest.
* `EntriesSafe` is proved pass by pass. `mergeIdentical` keeps what its entries
  hold and makes keys unique (`MergedIs`); `tidy` touches references only
  (`SameFrame`, `TidyEntry`); `crossRefs` leaves no reference to a heading that is
  not there, whatever the map's order (`CrossRefsAre`); `sortEntries` is a
  permutation because its order is total (`PrecedesOrders`, `SortedIs`). Together
  they give `TidyIs`, of which the references are the last `tidy`'s doing. For the
  consolidation, an entry goes where references to its heading go (`MovedIs`), and
  a chain that ends within five steps ends at the same heading when it is entered
  a step later (`ResolveOn`); so where "from" and "to" share no word the
  see-reference finds its target in place and "from" stays (`FoundAgain`). That
  argument does not go through for a heading merged in two steps: there the proof
  failed, and TLC showed why (section 7).

Several of these facts are about functions that run along a sequence (`Paras`,
`Blocks`, `SplitLong`, `SumOf`, `Ascending`, `Consolidated`). The library's
induction theorems cannot be used here (the provers cannot instantiate an
operator parameter), so such a fact is proved by its least counterexample: the
set of lengths for which it fails would have a least element (`LeastNatural`),
from which `SetInduction` and `SeqInduction` follow as lemmas about *sets*, and
`Recursion` gives a recursive function its equation.

The inductive invariants were model-checked as invariants before they were
proved, on the instances of section 4.

**Only model-checked:**

* the liveness properties `BuildEnds`, `DraftingEnds`, `PaidFulfilled`,
  `BuyerMailed`: the prover has no fairness. Every other property of the passing
  runs is stated by a theorem, under the premises the table names.

## 6. Hazards

`PROJECT.json` lists the places where a test would hardly reach, with the
properties that watch them and, where none does, why. One more is known and has
no entry there: a listing of Stripe events has 100 entries, the newest, so more
than 100 sales within one cycle or outage would hide the oldest. The model has
the page (`Limit`); nothing in the repository promises such volumes.

## 7. Promises the code does not keep

As runs, with the counterexample TLC finds:

* **A failed final may not be refunded** (`factory_refund_kind`). `build_kind` is
  written before the claim. A proof POST that loses the claim to a running final
  has already turned the row into a proof; when the final fails,
  `failConversionAt` reads `proof` and keeps the credit.
* **A timed-out draft stays `drafting`** (`index_timeout`). `fail()` stores
  through the context whose deadline has just passed.
* **A paid pass may never get its order row** (`store_disconnect`). The row is
  written under the request's context after the pass has been committed; a retry
  stops at the unique session id before it reaches the insert.
* **A mailed address may stop working** (`slugs_renamed_back`). A client is
  renamed, one of its projects is renamed, and the client gets its old slug back:
  the second rename deletes the aliases under that slug, and the project's alias
  was recorded under the other one only.
* **The EPUB may set a byline under another chapter than print does**
  (`epub_bylines`). Bylines are paired with files that have an `<h1>`; a kept
  untitled piece has a hidden one and a dropped title or contents section none.

By checking the property named under the constants given; not kept as runs:

| Property | Module and constants | What happens |
|---|---|---|
| `ConvertingEnds` | FactoryBuild, one book outside a project, two requests, `FairSpec` | `unclaim` (`books.go:453`) writes back the status read when the POST came in, which may be the `converting` of a build that has ended since |
| `NoStrayRefund` | FactoryBuild, the constants of `factory_exclusive` | a final that loses the claim makes a failed proof refundable, and a book that got a pass or another project while it was built has a credit handed to a pass that was never charged |
| `StoredNotRefunded` | FactoryBuild, the constants of `factory_exclusive` | the PDF is stored, the write of `ready` fails, and the credit goes back, though a refund of a build that "is downloadable" is called wrong (`books.go:1106`) |
| `RefusedUncharged` | FactoryBuild, one request, `Events = {"disconnect"}` | a client that leaves between the debit and its ledger row pays for a build that is not started |
| `OneBuildPerProject` | FactoryBuild, two books, `Events = {"link"}` | a converting book is moved into a project that is building |
| `OneDraftAtATime` | IndexDraft, two drafts | two POSTs read before either writes, and two runs start |
| `IncludableHasEntries` | IndexDraft, the portal's constants | a PUT of an empty list is accepted (`index.go:252` refuses only a missing one) and stored as reviewed |
| `DraftOrBuild` | IndexDraft, one draft, `Faults = {"build"}` | `handleConvertBook` does not look at `index_status` |
| `ReviewSurvives` | IndexDraft, one draft, one review | a review stored during a run is replaced by the run |
| `FinalsKept` | BookOutputs | the EPUB of a final is pruned with the other EPUBs |
| `ProofsRateLimited` | BookOutputs, one book | pruning deletes the rows that the rate limit counts |
| `PaidFulfilled` | StoreFulfilment, two add-on sessions, `Events = {"fault"}` | `since` moves before the work is done; one failure of the older of two events is not retried |
| `BuyerMailed` | StoreFulfilment, `Events = {"crash"}` | the only copy of the password dies with the mail's goroutine |
| `EveryResetEndsLinks` | SignIn, the portal's constants | the reset's second statement fails, which is logged only (`passes.go:1140`), and a link mailed before opens a session after the reset was answered |
| `EveryMailApart` | Throttle, the portal's constants | the provider takes a notice and the answer is lost; the throttle is cleared (`transmittal_notify.go:106`) and the next save sends another, against "at most one per 30 minutes" (`:16`) |
| `OwnWindowHolds` | Throttle, the portal's constants | the day's cap on nits (`nit:*`) is deleted by callers with ten-minute windows (`registration.go:62`), so ten quiet minutes reset it |
| `FinalReachesSpec` | BookSpec, the office's constants | a request that only makes sure a spec exists, such as a cover upload (`bookspecs.go:1222`), creates it from defaults after the final was stored, and the build takes it for the studio's later edit; `chapter_detect.go:483` avoids just that |
| `PendingReachBuild` | BuildStages, the office's constants | the corrections cannot be loaded, which is logged only (`corrections_apply.go:108`), and an artifact without them is stored |
| `SnapshotIsApplied` | BuildStages, the office's constants | the patcher fails, and the artifact records the snapshot of corrections its text does not have |
| `SameMapTitle` | BuildStages, the office's constants | print maps the file under the unpatched title (`books.go:887`), the EPUB under the patched one (`epub.go:166`), though "same front/body/back reading" is meant |
| `WordingsKept` | IndexEntries, the office's constants | a heading merged in two steps, each of which keeps one of its words, is found nowhere: `shareWord` is asked of each merge by itself (`indexer/draft.go:448`), though a wording that "shares no word with its target" is to stay as a see-reference (`:445`) |
| `StoredIsAccepted` | IndexEntries, the office's constants | an entry whose references are all dropped by `Tidy` is stored, and the reviewer's next PUT of the page's own list is refused |
| `ChaptersMatchChunks` | IndexPlaces, the office's constants | a chapter under 20 words is no chunk and a long one is two, and any line that reads like a heading begins a chunk, so the numbers `Chunks` gives and those `PlaceMarkers` expects (`indexer/anchor.go:53`) differ |
| `OnWholeWords` | IndexPlaces, the office's constants | the folded text is searched for bytes (`indexer/anchor.go:151`), so a marker may land after "he said" inside an earlier "she said" |
| `EveryParagraphFollows` | BookMap, the office's constants | the map counts paragraphs, the filter blocks: one ornament, section break, hand-set list or table, and a `RawBlock` that counts for nothing (`docx-to-typst-enhanced.lua:617`) shifts what follows into the next piece |
| `RealContentNeverDropped` | BookMap, the office's constants | a paragraph so shifted into a dropped piece is dropped with it, though "real content is never dropped" (`bookmap.go:421`) |
| `GateSeesWhatIsSet` | BookMap, the office's constants | where the client has every item of the file stripped, print sets none of the words the gate counts, though its comment says "the build will actually set" |

Met while reading, outside what the properties state:

* *Limiters.* `WindowHolds` speaks of the shortest windows only (`OwnWindowHolds`
  above). All windows are lost with the process.
* *Registrations.* A re-submission's mails carry the id of whatever row was
  inserted last (`registration.go:208`). An admin's edit overwrites a concurrent
  re-submission, a withdrawn consent included. An admin who leaves during a batch
  loses the stamps and log rows of letters already taken.
* *Sign-in.* A redemption that had read the link before a reset still gets its
  session.
* *Slugs.* "Numbers are never reused" (`slugs.go:132`) ends with the client's
  rename. Overlapping reloads may install the older map (`RouterFollows` excludes
  them). PUT of a project, and a creation under a client renamed since it was
  looked up, can leave a project under a slug nobody has. Slugs typed by hand may
  be shadowed by an alias.
* *Transmittals and specs.* Two crossing PUTs, or a restore, leave the project
  named after another title. A pull that straddles a second misses a newer save;
  a sync that checked for `final` may pull a draft saved in between. Creating a
  spec from defaults may overwrite a concurrent pull, and a pull or PUT the
  suggestions of a concurrent detection.
* *Style sheets.* First visits at the same time seed the house style twice
  (`housestyle.go:51`, `stylesheet.go:135`). The PATCH of a pruned rule answers
  200 and is lost; of two patches the older may win. Accepting and rejecting one
  proposal at once is not checked again in the transaction, and two proposals
  may both be pending.
* *Calendars.* A start date with a time of day copies tasks unshifted. Seeding
  twice doubles the tasks.
* *Letters.* The snapshot's text says "under budget" where the HTML says "On
  budget", and leaves out publisher, mechanicals delivery and weeks; the
  transmittal's text is headed FINAL for drafts too (`email.go:493`); the digest's
  text has a summary line without activity. `PartsAgree` names these exceptions.
  A send whose answer is lost is listed as failed though it was taken.
* *Builds.* PDF and EPUB load the corrections separately (`books.go:856`,
  `epub.go:103`); no build sets one `applied`. Corrections without a chapter are
  applied one after another, so they may feed each other (`TitlesAgree` is for
  those that do not).
* *Index entries.* `Tidy` is not idempotent, and `crossRefs` depends on Go's map
  order. A cyclic merge reply loses a wording.
* *Book map.* A file whose headings are all front and back matter has no body; a
  typed Contents section is dropped with any real text in it, with a warning;
  the gate's word count leaves out kept untitled pieces.

## 8. Not modelled

* Calls that keep no row of ours: catalogue bootstrap, promotions and checkout
  creation at Stripe; the LLM client, its prompts and its JSON.
* Rendering: pages, help, mail layout, Typst configuration, Word templates, EPUB
  packaging, the inspection page, the outline of a transmittal as PDF.
* One statement or one file at a time with no invariant across them: preflight
  rows, content review, docs editor, site pages, nits, settings other than
  `finals_gate`, archive and restore of projects, the event log.
* Read-only listings and look-ups in `db/dbgen`, migrations, start-up, logging,
  host redirects, and who may call what.

`PROJECT.json` gives the status and the reason for each component.

## 9. Plan

What is left, in this order:

1. `StoreFulfilment`: a second promise, that of the poller, with what it needs
   (`Lookback` covers the outage).
2. FactoryBuild and BookOutputs composed, so that pruning and the finals that
   `DeliveredWithinAllowance` counts (today by the history `stored`) are about
   the same rows.
3. BookMap: nested lists, and the EPUB's reading of the same raw blocks.
