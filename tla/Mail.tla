-------------------------------- MODULE Mail --------------------------------
(***************************************************************************)
(* Mails composed from a project's rows: the snapshot, the activity        *)
(* update, the client's digest and the transmittal summary. Each is        *)
(* written twice, as HTML and as text, by functions of their own, sent     *)
(* through Server.mail and logged in outbound_email.                       *)
(*                                                                         *)
(* A part is modelled by the set of facts it states, <<label, value, ...>>.*)
(* Rows are read one query at a time while they are being added to.        *)
(***************************************************************************)
EXTENDS Integers, Sequences, FiniteSets, SequencesExt

CONSTANTS
    Authored,  \* projects of the client
    Scheduled, \* those whose tasks the model lets grow
    TaskRows,  \* tasks that may be added: status, due, milestone, curr, actual
    LogRows,   \* rows of file_log and journal: their day, and the direction
    FormsSent, \* the sets of transmittal fields a form may have filled
    Senders,   \* recipient lists of the requests
    Letters,   \* requests to send
    Audit,     \* PRODCAL_MAIL_BCC
    Today,     \* the date of the server
    Days,      \* how far back activity and digest look
    MaxLines   \* bound on all rows together

\* Addresses are pairs <<mailbox, spelling>>; spellings differ in case only.
Addresses == STRING \X Nat

ASSUME MailAssumption ==
    /\ IsFiniteSet(Authored) /\ Scheduled \subseteq Authored
    /\ TaskRows \subseteq [status: STRING, due: Int, milestone: BOOLEAN, curr: Int, actual: Int]
    /\ LogRows \subseteq [day: Int, out: BOOLEAN]
    /\ Audit \in Addresses /\ \A r \in Senders : r \in Seq(Addresses) /\ r # <<>>

VARIABLES
    tasks, files, journal, \* the rows of each project
    filled,  \* the fields filled in each project's transmittal
    letter,  \* the requests: where each is, what it is and what it has read
    taken,   \* history: letters the provider took
    report   \* outbound_email

mailVars == <<tasks, files, journal, filled, letter, taken, report>>

LetterKinds == {"snapshot", "activity", "digest", "transmittal"}
NothingRead == [tasks |-> <<>>, files |-> [p \in Authored |-> <<>>],
                journal |-> [p \in Authored |-> <<>>], filled |-> {}, counted |-> [files |-> 0, journal |-> 0]]
Unread(pc, kind, about) == [pc |-> pc, kind |-> kind, about |-> about, to |-> <<>>, got |-> NothingRead,
                            left |-> about, at |-> {}, status |-> 0]
NotAsked == Unread("idle", "none", {})

MailTypeOK ==
    /\ \A p \in Authored : /\ tasks[p] \in Seq(TaskRows)
                           /\ files[p] \in Seq(LogRows) /\ journal[p] \in Seq(LogRows)
                           /\ filled[p] \in FormsSent \cup {{}}
    /\ \A l \in Letters : /\ letter[l].pc \in {"idle", "tasks", "form", "files", "journal", "send",
                                               "log", "done", "failed"}
                          /\ letter[l].about \subseteq Authored /\ letter[l].left \subseteq letter[l].about
                          /\ letter[l].at \subseteq letter[l].about \ letter[l].left
                          /\ letter[l].status \in {0, 200, 500}
    /\ taken \subseteq Letters
    /\ report \subseteq [letter: Letters, status: {0, 200, 500}]

MailInit ==
    /\ tasks = [p \in Authored |-> <<>>] /\ files = tasks /\ journal = tasks
    /\ filled = [p \in Authored |-> {}]
    /\ letter = [l \in Letters |-> NotAsked]
    /\ taken = {} /\ report = {}

(***************************************************************************)
(* The rows.                                                               *)
(***************************************************************************)
Lines == FoldSet(LAMBDA p, n : n + Len(tasks[p]) + Len(files[p]) + Len(journal[p])
                               + Cardinality(filled[p] \cap {"title"}), 0, Authored)

AddTask(p, t) ==
    /\ Lines < MaxLines
    /\ tasks' = [tasks EXCEPT ![p] = Append(@, t)]
    /\ UNCHANGED <<files, journal, filled, letter, taken, report>>

\* Listings are newest first.
LogFile(p, e) ==
    /\ Lines < MaxLines
    /\ files' = [files EXCEPT ![p] = <<e>> \o @]
    /\ UNCHANGED <<tasks, journal, filled, letter, taken, report>>

\* created_at is the database's CURRENT_TIMESTAMP; older entries are past days'.
LogJournal(p, e) ==
    /\ Lines < MaxLines
    /\ journal' = [journal EXCEPT ![p] = <<e>> \o @]
    /\ UNCHANGED <<tasks, files, filled, letter, taken, report>>

DeleteLog(p) ==
    /\ \/ files[p] # <<>> /\ files' = [files EXCEPT ![p] = Tail(@)] /\ UNCHANGED journal
       \/ journal[p] # <<>> /\ journal' = [journal EXCEPT ![p] = Tail(@)] /\ UNCHANGED files
    /\ UNCHANGED <<tasks, filled, letter, taken, report>>

FillForm(p, f) ==
    /\ filled[p] = {} /\ Lines < MaxLines
    /\ filled' = [filled EXCEPT ![p] = f]
    /\ UNCHANGED <<tasks, files, journal, letter, taken, report>>

(***************************************************************************)
(* Composing: one query after the other.                                   *)
(***************************************************************************)
FirstRead(kind) == CASE kind = "snapshot" -> "tasks" [] kind = "transmittal" -> "form"
                     [] OTHER -> "files"

\* A request is for one project, or for all of them: the digest.
AskLetter(l, kind, about) ==
    /\ letter[l].pc = "idle"
    /\ kind = "digest" <=> about = Authored
    /\ letter' = [letter EXCEPT ![l] = Unread(FirstRead(kind), kind, about)]
    /\ UNCHANGED <<tasks, files, journal, filled, taken, report>>

Only(s) == CHOOSE x \in s : TRUE

ReadTasks(l) ==
    /\ letter[l].pc = "tasks"
    /\ letter' = [letter EXCEPT ![l] =
                      [letter[l] EXCEPT !.pc = "form", !.got.tasks = tasks[Only(letter[l].about)]]]
    /\ UNCHANGED <<tasks, files, journal, filled, taken, report>>

ReadForm(l) ==
    /\ letter[l].pc = "form"
    /\ letter' = [letter EXCEPT ![l] =
                      [letter[l] EXCEPT !.pc = IF letter[l].kind = "snapshot" THEN "files" ELSE "send",
                                        !.got.filled = filled[Only(letter[l].about)]]]
    /\ UNCHANGED <<tasks, files, journal, filled, taken, report>>

\* The snapshot takes the latest rows whatever their day, the others those
\* since the cut-off, in their order; both are lists newest first.
Since(kind, rows) ==
    IF kind = "snapshot" THEN rows
    ELSE LET late == {i \in DOMAIN rows : rows[i].day >= Today - Days}
             at == CHOOSE s \in [1 .. Cardinality(late) -> late] :
                       \A m, n \in 1 .. Cardinality(late) : m < n => s[m] < s[n]
         IN [n \in 1 .. Cardinality(late) |-> rows[at[n]]]

ReadFiles(l, p) ==
    /\ letter[l].pc = "files" /\ p \in letter[l].left
    /\ letter' = [letter EXCEPT ![l] =
                      [letter[l] EXCEPT !.pc = "journal", !.left = @ \ {p}, !.at = {p},
                                        !.got.files[p] = Since(letter[l].kind, files[p])]]
    /\ UNCHANGED <<tasks, files, journal, filled, taken, report>>

AfterProject(l) == IF letter[l].left = {} THEN "send" ELSE "files"

\* totalFiles and totalJournal, once both lists of a project have been read.
Count(l, p, read) ==
    LET c == letter[l].got.counted IN
    [files |-> c.files + Len(letter[l].got.files[p]), journal |-> c.journal + Len(read)]

ReadJournal(l, p) ==
    LET read == Since(letter[l].kind, journal[p]) IN
    /\ letter[l].pc = "journal" /\ p \in letter[l].at
    /\ letter' = [letter EXCEPT ![l] =
                      [letter[l] EXCEPT !.pc = AfterProject(l), !.at = {},
                                        !.got.journal[p] = read, !.got.counted = Count(l, p, read)]]
    /\ UNCHANGED <<tasks, files, journal, filled, taken, report>>

\* A query fails: the digest goes on without the project, also without the
\* files it has read; the other mails are given up.
ReadFails(l) ==
    /\ letter[l].pc \in {"tasks", "files", "journal"}
    /\ IF letter[l].kind # "digest"
       THEN letter' = [letter EXCEPT ![l].pc = "failed"]
       ELSE \E p \in IF letter[l].pc = "files" THEN letter[l].left ELSE letter[l].at :
              letter' = [letter EXCEPT ![l] =
                            [letter[l] EXCEPT !.pc = IF letter[l].left \subseteq {p} THEN "send" ELSE "files",
                                              !.left = @ \ {p}, !.at = {}, !.got.files[p] = <<>>]]
    /\ UNCHANGED <<tasks, files, journal, filled, taken, report>>

(***************************************************************************)
(* What the snapshot says.                                                 *)
(***************************************************************************)
Done(ts) == Cardinality({i \in DOMAIN ts : ts[i].status = "done"})
Active(ts) == Cardinality({i \in DOMAIN ts : ts[i].status \in {"active", "in_progress"}})
Pending(ts) == Cardinality({i \in DOMAIN ts : ts[i].status \notin {"done", "active", "in_progress"}})
Percent(ts) == IF ts = <<>> THEN 0 ELSE (Done(ts) * 100) \div Len(ts)

Total(amounts) ==
    LET sum[n \in 0 .. Len(amounts)] == IF n = 0 THEN 0 ELSE sum[n - 1] + amounts[n]
    IN sum[Len(amounts)]
TotalCurr(ts) == Total([i \in DOMAIN ts |-> ts[i].curr])
TotalActual(ts) == Total([i \in DOMAIN ts |-> ts[i].actual])

StatusLabel(status) == CASE status = "done" -> "Done"
                         [] status \in {"active", "in_progress"} -> "Active"
                         [] OTHER -> "Pending"

\* A task without a date is never late; 0 stands for the empty date.
Overdue(t) == t.status # "done" /\ t.due # 0 /\ t.due < Today

FileFacts(p, rows) == {<<"file", p, i, rows[i].day, IF rows[i].out THEN "out" ELSE "in">> : i \in DOMAIN rows}
JournalFacts(p, rows) == {<<"entry", p, i, rows[i].day>> : i \in DOMAIN rows}
TaskFacts(ts) == {<<"task", i, ts[i].milestone, StatusLabel(ts[i].status), ts[i].due, Overdue(ts[i])>> :
                    i \in DOMAIN ts}
Tally(ts) == {<<"Complete", Percent(ts)>>, <<"Done", Done(ts)>>, <<"Active", Active(ts)>>,
              <<"Pending", Pending(ts)>>}
FormStatus == {"title", "author", "transmittal_date", "bound_book_date"}

\* buildSnapshotHTML; a variance of 0 is "On budget" here and "under" in the text.
SnapshotHTML(l) ==
    LET got == letter[l].got p == Only(letter[l].about) ts == got.tasks
        variance == TotalCurr(ts) - TotalActual(ts)
    IN Tally(ts) \cup TaskFacts(ts)
       \cup {<<"budget", TotalCurr(ts), TotalActual(ts)>>,
             IF variance < 0 THEN <<"over", -variance>>
             ELSE IF variance = 0 THEN <<"on budget", 0>> ELSE <<"under", variance>>}
       \cup {<<"form", f>> : f \in got.filled \cap (FormStatus \cup {"publisher", "mechs_delivery", "weeks"})}
       \cup FileFacts(p, got.files[p]) \cup JournalFacts(p, got.journal[p])

SnapshotText(l) ==
    LET got == letter[l].got p == Only(letter[l].about) ts == got.tasks
        variance == TotalCurr(ts) - TotalActual(ts)
    IN Tally(ts) \cup TaskFacts(ts)
       \cup {<<"budget", TotalCurr(ts), TotalActual(ts)>>,
             IF variance >= 0 THEN <<"under", variance>> ELSE <<"over", -variance>>}
       \cup {<<"form", f>> : f \in got.filled \cap FormStatus}
       \cup FileFacts(p, got.files[p]) \cup JournalFacts(p, got.journal[p])

(***************************************************************************)
(* What the activity update and the digest say.                            *)
(***************************************************************************)
ActivityHTML(l) ==
    LET got == letter[l].got p == Only(letter[l].about) IN
    IF got.files[p] = <<>> /\ got.journal[p] = <<>> THEN {<<"nothing">>}
    ELSE {<<"counts", Len(got.files[p]), Len(got.journal[p])>>}
         \cup FileFacts(p, got.files[p]) \cup JournalFacts(p, got.journal[p])

ActivityText(l) ==
    LET got == letter[l].got p == Only(letter[l].about)
        counts == <<"counts", Len(got.files[p]), Len(got.journal[p])>>
    IN IF got.files[p] = <<>> /\ got.journal[p] = <<>> THEN {<<"nothing">>}
       ELSE {counts} \cup (IF got.files[p] = <<>> THEN {} ELSE FileFacts(p, got.files[p]))
            \cup (IF got.journal[p] = <<>> THEN {} ELSE JournalFacts(p, got.journal[p]))

\* Only projects with activity get a section.
Sections(got) == {p \in Authored : got.files[p] # <<>> \/ got.journal[p] # <<>>}

DigestHTML(l) ==
    LET got == letter[l].got IN
    IF Sections(got) = {} THEN {<<"nothing">>}
    ELSE {<<"counts", Cardinality(Sections(got)), got.counted.files, got.counted.journal>>}
         \cup UNION {FileFacts(p, got.files[p]) \cup JournalFacts(p, got.journal[p]) : p \in Sections(got)}

\* The text has its summary line also when there is nothing to report.
DigestText(l) ==
    LET got == letter[l].got IN
    {<<"counts", Cardinality(Sections(got)), got.counted.files, got.counted.journal>>}
    \cup IF Sections(got) = {} THEN {<<"nothing">>}
         ELSE UNION {FileFacts(p, got.files[p]) \cup JournalFacts(p, got.journal[p]) : p \in Sections(got)}

(***************************************************************************)
(* What the transmittal summary says: sections with gates of their own.    *)
(***************************************************************************)
BookFields == {"title", "author", "publisher", "transmittal_date", "mechs_delivery", "weeks", "bound_book_date"}
ManuscriptFields == {"parts", "chapters", "words"}
DesignFields == {"trim", "est_pages", "complexity"}

TransmittalHTML(l) ==
    LET f == letter[l].got.filled IN
    (f \cap BookFields)
    \cup (IF "parts" \in f \/ "chapters" \in f THEN f \cap ManuscriptFields ELSE {})
    \cup (IF "trim" \in f \/ "est_pages" \in f THEN f \cap DesignFields ELSE {})
    \cup (f \cap {"pairing", "other"})

TransmittalText(l) ==
    LET f == letter[l].got.filled
        manuscript == f \cap {"parts", "chapters"} # {}
        design == f \cap {"trim", "est_pages"} # {}
    IN {x \in f : \/ x \in BookFields \cup {"pairing", "other"}
                  \/ manuscript /\ x \in ManuscriptFields
                  \/ design /\ x \in DesignFields}

(***************************************************************************)
(* Sending: the first recipient is "to", the others "cc"; bccFor adds the  *)
(* audit copy unless it is a recipient already.                            *)
(***************************************************************************)
SameMailbox(a, b) == a[1] = b[1]

Bcc_AsSpelled(to) == IF \E i \in DOMAIN to : to[i] = Audit THEN <<>> ELSE <<Audit>>

Bcc(to) == IF \E i \in DOMAIN to : SameMailbox(to[i], Audit) THEN <<>> ELSE <<Audit>>

\* The recipients are those of the request. The provider takes the letter and
\* says so, takes it and the answer is lost, or does not take it.
Send(l, to) ==
    /\ letter[l].pc = "send"
    /\ \E status \in {0, 200, 500}, took \in BOOLEAN :
         /\ status = 200 => took
         /\ status = 500 => ~ took
         /\ letter' = [letter EXCEPT ![l] = [letter[l] EXCEPT !.pc = "log", !.to = to, !.status = status]]
         /\ taken' = IF took THEN taken \cup {l} ELSE taken
    /\ UNCHANGED <<tasks, files, journal, filled, report>>

\* logOutboundEmail, whatever the outcome; the handler answers 200 or 500 after.
LogSend(l) ==
    /\ letter[l].pc = "log"
    /\ report' = report \cup {[letter |-> l, status |-> letter[l].status]}
    /\ letter' = [letter EXCEPT ![l].pc = "done"]
    /\ UNCHANGED <<tasks, files, journal, filled, taken>>

\* The insert fails, or the process ends before it: only the log line remains.
LogSendFails(l) ==
    /\ letter[l].pc = "log"
    /\ letter' = [letter EXCEPT ![l].pc = "failed"]
    /\ UNCHANGED <<tasks, files, journal, filled, taken, report>>

\* ?failed=1 of the mail report.
FailedRows == {r \in report : r.status = 0 \/ r.status >= 300}

\* Rows no letter will read any more need not change: a bound.
Reading == \E l \in Letters : letter[l].pc \in {"idle", "tasks", "form", "files", "journal"}

MailNext ==
    \/ /\ Reading
       /\ \/ \E p \in Scheduled, t \in TaskRows : AddTask(p, t)
          \/ \E p \in Authored, e \in LogRows : LogFile(p, e) \/ LogJournal(p, e)
          \/ \E p \in Authored : DeleteLog(p)
          \/ \E p \in Scheduled, f \in FormsSent : FillForm(p, f)
    \/ \E l \in Letters :
         \/ \E kind \in LetterKinds \ {"digest"}, p \in Scheduled : AskLetter(l, kind, {p})
         \/ AskLetter(l, "digest", Authored)
         \/ ReadTasks(l) \/ ReadForm(l) \/ ReadFails(l)
         \/ \E p \in Authored : ReadFiles(l, p) \/ ReadJournal(l, p)
         \/ (\E to \in Senders : Send(l, to)) \/ LogSend(l) \/ LogSendFails(l)

MailSpec == MailInit /\ [][MailNext]_mailVars

-----------------------------------------------------------------------------
Composed(kind) == {l \in Letters : letter[l].kind = kind /\ letter[l].pc \in {"send", "log", "done"}}

\* The numbers at the head of a snapshot count the rows of its own table under
\* the labels printed there, though two switches decide them and tasks are
\* edited meanwhile; and they leave no task out.
TallyMatchesTable ==
    \A l \in Composed("snapshot") :
        LET ts == letter[l].got.tasks
            labelled(s) == Cardinality({i \in DOMAIN ts : StatusLabel(ts[i].status) = s})
        IN /\ Done(ts) = labelled("Done") /\ Active(ts) = labelled("Active")
           /\ Pending(ts) = labelled("Pending")
           /\ Done(ts) + Active(ts) + Pending(ts) = Len(ts)

\* The two parts of a mail state the same facts: a reader of the text learns no
\* less and nothing else, but for what the README lists (three rows of the
\* snapshot's form status, a variance of 0, the digest without activity).
PartsAgree ==
    /\ \A l \in Composed("snapshot") :
          {f \in SnapshotHTML(l) : f[1] # "form" \/ f[2] \in FormStatus} \ {<<"on budget", 0>>}
             = SnapshotText(l) \ {<<"under", 0>>}
    /\ \A l \in Composed("activity") : ActivityHTML(l) = ActivityText(l)
    /\ \A l \in Composed("digest") : letter[l].got.counted.files + letter[l].got.counted.journal > 0
                                        => DigestHTML(l) = DigestText(l)
    /\ \A l \in Composed("transmittal") : TransmittalHTML(l) = TransmittalText(l)

\* The digest's totals are the rows it lists, also when the query of a project
\* has failed between its two lists.
DigestAddsUp ==
    \A l \in Composed("digest") :
        LET counted == letter[l].got.counted
            Listed(label) == Cardinality({f \in DigestHTML(l) : f[1] = label})
        IN counted.files = Listed("file") /\ counted.journal = Listed("entry")

\* "BCC'd on every send ... Skipped when that address is already in To/Cc": the
\* audit mailbox gets the copies it was addressed, however they spell it, and
\* one if there are none.
AuditCopies(list) == {i \in DOMAIN list : SameMailbox(list[i], Audit)}
AuditCopy ==
    \A l \in taken : LET to == letter[l].to IN
        Cardinality(AuditCopies(to \o Bcc(to))) = IF AuditCopies(to) = {} THEN 1 ELSE Cardinality(AuditCopies(to))

\* The mail report: every attempt is a row unless its insert was lost, and a
\* letter not listed as failed was taken. (One listed as failed may have been.)
ReportTruthful ==
    /\ \A l \in Letters : letter[l].pc = "done" => \E r \in report : r.letter = l
    /\ \A r \in report \ FailedRows : r.letter \in taken

\* A mail tells one story: its tallies are those of its table, its two parts
\* state the same facts, its totals are its rows, the studio gets one copy, and
\* the report lists it as it went.
MailSafe ==
    /\ MailTypeOK
    /\ TallyMatchesTable
    /\ PartsAgree
    /\ DigestAddsUp
    /\ AuditCopy
    /\ ReportTruthful
=============================================================================
