-------------------------------- MODULE Pager --------------------------------
(***************************************************************************)
(* The pager with a rollback journal: sqlite3PagerBegin, pager_write,      *)
(* pagerStress, syncJournal, CommitPhaseOne and Two, pager_playback,       *)
(* savepoints, hot journals, power failures and failing system calls.      *)
(*                                                                         *)
(* A step of a call ends at the system call that may fail or that orders   *)
(* what a power failure can undo.  Until a sync, each written block is     *)
(* what it was, what was written or torn.  `pc` is the call in progress.   *)
(*                                                                         *)
(* Named abstractions.  One connection, whose locks are always granted     *)
(* (FileLock and Transactions have the others).  A journal header and a    *)
(* record take one block each; a torn record has a bad checksum.  Page 1   *)
(* carries the size of the database (n).  No auto_vacuum, no pages that    *)
(* are left unwritten (PGHDR_DONT_WRITE), no master journal; the           *)
(* sub-journal does not fail.  The settings of the connection are one of   *)
(* Settings: journalMode ("DELETE", "TRUNCATE" or "PERSIST"), fullSync     *)
(* (synchronous=FULL, not NORMAL) and aligned: whether the records of a    *)
(* commit end at a sector boundary, where an earlier transaction may have  *)
(* left a header (64 records of 4104 bytes do, with sectors of 512).  With *)
(* MaxPages, their MaxVersion, MaxSaves, MaxFaults and MaxCrashes bound a  *)
(* behaviour.                                                              *)
(*                                                                         *)
(* A definition headed "Fault of X" is not part of the specification: it   *)
(* is what X would be with a bug, and shows that a property notices.       *)
(***************************************************************************)
EXTENDS Integers, Sequences, FiniteSets

CONSTANTS Settings, MaxPages

ASSUME SettingAssumption ==
    \A g \in Settings :
        /\ g.journalMode \in {"DELETE", "TRUNCATE", "PERSIST"} /\ g.fullSync \in BOOLEAN /\ g.aligned \in BOOLEAN
        /\ {g.maxVersion, g.maxSaves, g.maxFaults, g.maxCrashes, MaxPages} \subseteq Nat
        /\ g.maxVersion > 0
VARIABLES
    pager,      \* the Pager object and its page cache
    db,         \* the database file: as read now (vis), and as of its last sync (safe)
    jrnl,       \* the journal file, likewise
    gone,       \* the journal last unlinked, until its directory is synced
    pc,         \* the call in progress: its step, its task, the page it spills
    ver,        \* a fresh value for contents and for cksumInit
    faults, crashes,
    setting

vars == <<pager, db, jrnl, gone, pc, ver, faults, crashes, setting>>

JournalMode == setting.journalMode
FullSync == setting.fullSync
MaxVersion == setting.maxVersion
MaxSaves == setting.maxSaves
MaxFaults == setting.maxFaults
MaxCrashes == setting.maxCrashes

Zero == [v |-> -1, n |-> 0]
Torn == [v |-> -2, n |-> 0]
Page == [v : -2 .. MaxVersion, n : 0 .. MaxPages]
NoFile == [vis |-> <<>>, safe |-> <<>>]
Idle == [at |-> "idle", task |-> "none", page |-> 0]
At(step, task) == [at |-> step, task |-> task, page |-> 0]

Header(magic, n, nonce, orig) == [kind |-> "hdr", magic |-> magic, n |-> n, nonce |-> nonce, orig |-> orig]
Record(p, d, nonce) == [kind |-> "rec", pgno |-> p, data |-> d, nonce |-> nonce]
Junk == [kind |-> "junk"]

Opened == [eState |-> "OPEN", jfd |-> FALSE, dbSize |-> 0, dbOrigSize |-> 0, dbFileSize |-> 0,
           cache |-> <<>>, nRec |-> 0, journalOff |-> 0, journalHdr |-> 0, header |-> 0, nonce |-> 0,
           pInJournal |-> {}, aSavepoint |-> <<>>, sub |-> <<>>]

Writer == {"LOCKED", "CACHEMOD", "DBMOD", "FINISHED"}

NewDatabase(n) == [p \in 1 .. n |-> [v |-> 0, n |-> IF p = 1 THEN n ELSE 0]]

Init ==
    /\ setting \in Settings
    /\ pager = Opened
    /\ \E n \in 0 .. MaxPages - 1 : db = [vis |-> NewDatabase(n), safe |-> NewDatabase(n)]
    /\ jrnl = NoFile /\ gone = NoFile
    /\ pc = Idle
    /\ ver = 1 /\ faults = 0 /\ crashes = 0

(***************************************************************************)
(* Files.                                                                  *)
(***************************************************************************)
Put(f, i, x) == [k \in 1 .. (IF i > Len(f) THEN i ELSE Len(f)) |->
                    IF k = i THEN x ELSE IF k <= Len(f) THEN f[k] ELSE Zero]
Sized(f, n) == [k \in 1 .. n |-> IF k <= Len(f) THEN f[k] ELSE Zero]
Synced(f) == [vis |-> f.vis, safe |-> f.vis]
Seen(f, g) == [vis |-> g, safe |-> f.safe]

\* The one value of the set {f(x)}: x is a bound variable so that TLC evaluates it once.
The(S) == CHOOSE x \in S : TRUE

\* The pages that the changes numbered S leave, the last change of a page counting.
Latest(changes, S) ==
    [p \in {changes[k].pgno : k \in S} |->
        LET k == CHOOSE k \in S : changes[k].pgno = p /\ \A m \in S : m > k => changes[m].pgno # p
        IN  changes[k].data]
Pages(changes) == Latest(changes, DOMAIN changes)
Overlaid(f, pages) ==
    LET size == CHOOSE n \in DOMAIN pages \cup {Len(f)} : \A p \in DOMAIN pages \cup {Len(f)} : p <= n
    IN  [p \in 1 .. size |-> IF p \in DOMAIN pages THEN pages[p] ELSE IF p <= Len(f) THEN f[p] ELSE Zero]
Stored(file, contents) == The({Overlaid(f, pages) : f \in {file}, pages \in {contents}})

(***************************************************************************)
(* Reading a journal J: the block numbers that pager_playback takes.       *)
(***************************************************************************)
Good(J, i, nonce) == J[i].kind = "rec" /\ J[i].nonce = nonce

\* readJournalHdr: the header in progress, at block hdr, needs no magic unless the journal is hot.
IsHeader(J, i, hdr, hot) == J[i].kind = "hdr" /\ (J[i].magic \/ (~hot /\ i = hdr))

Count(J, i, hdr, hot, limit) == IF J[i].n = 0 /\ ~hot /\ i = hdr THEN limit - i ELSE J[i].n

\* How many of the n records after the header at i are good.
GoodRecords(J, i, n, limit) ==
    LET good == {k \in 0 .. n : i + k <= limit /\ \A m \in i + 1 .. i + k : Good(J, m, J[i].nonce)}
    IN  CHOOSE k \in good : \A m \in good : m <= k

Blocks(J, from, limit, hdr, hot) ==
    LET Run[i \in 1 .. limit + 1] ==
            IF i > limit \/ ~IsHeader(J, i, hdr, hot) THEN {}
            ELSE LET n == Count(J, i, hdr, hot, limit)
                     stop == GoodRecords(J, i, n, limit)
                 IN  (i + 1 .. i + stop) \cup (IF stop < n THEN {} ELSE Run[i + n + 1])
    IN  IF from > limit THEN {} ELSE Run[from]

\* What the records in these blocks do to a file of that size, in the order of the blocks.
Changes(J, blocks, size) ==
    [b \in {k \in blocks : J[k].pgno <= size} |-> [pgno |-> J[b].pgno, data |-> J[b].data, at |-> b]]
Before(changes, n) == [k \in {m \in DOMAIN changes : m < n} |-> changes[k]]

\* hasHotJournal, and what pager_playback makes of the file when it is hot.
Hot(f, J) == Len(f) > 0 /\ Len(J) > 0 /\ J[1].kind = "hdr" /\ J[1].magic
RolledBack(f, J) ==
    The({Stored(Sized(f, J[1].orig), Pages(c)) : c \in {Changes(J, Blocks(J, 1, Len(J), 0, TRUE), J[1].orig)}})

(***************************************************************************)
(* Pages.                                                                  *)
(***************************************************************************)
Get(cache, f, size, p) ==
    IF p \in DOMAIN cache THEN cache[p].data ELSE IF p <= Len(f) /\ p <= size THEN f[p] ELSE Zero
Image(cache, f, size) ==
    [p \in 1 .. Get(cache, f, size, 1).n |-> Get(cache, f, size, p)]
Content(p) == Get(pager.cache, db.vis, pager.dbSize, p)
nPage == Content(1).n

Flag(cache, p) == p \in DOMAIN cache /\ cache[p].sync
Cached(cache, p, d, dirty, sync) ==
    [q \in DOMAIN cache \cup {p} |-> IF q = p THEN [data |-> d, dirty |-> dirty, sync |-> sync] ELSE cache[q]]
Dirty == {p \in DOMAIN pager.cache : pager.cache[p].dirty}
Clean(cache, size) ==
    [p \in {q \in DOMAIN cache : q <= size} |-> [cache[p] EXCEPT !.dirty = FALSE, !.sync = FALSE]]
Bigger(a, b) == IF a > b THEN a ELSE b

(***************************************************************************)
(* pager_open_journal and pager_write, on a pager g and a journal J.       *)
(***************************************************************************)
JournalOpened(g, J) ==
    IF g.eState # "LOCKED" THEN [g |-> g, J |-> J]
    ELSE [g |-> [g EXCEPT !.eState = "CACHEMOD", !.jfd = TRUE, !.pInJournal = {}, !.nRec = 0,
                          !.journalOff = 1, !.journalHdr = 0, !.header = 1, !.nonce = ver],
          J |-> Put(J, 1, Header(FALSE, 0, ver, g.dbOrigSize))]

InSavepoints(saves, p) ==
    [i \in DOMAIN saves |-> IF p <= saves[i].nOrig THEN [saves[i] EXCEPT !.inSavepoint = @ \cup {p}] ELSE saves[i]]

\* pagerAddPageToRollbackJournal; a new page waits for the journal's first sync.
Journalled(g, J, p, old) ==
    IF p \in g.pInJournal THEN [g |-> g, J |-> J, sync |-> Flag(g.cache, p)]
    ELSE IF p > g.dbOrigSize THEN [g |-> g, J |-> J, sync |-> g.eState # "DBMOD" \/ Flag(g.cache, p)]
    ELSE [g |-> [g EXCEPT !.journalOff = @ + 1, !.nRec = @ + 1, !.pInJournal = @ \cup {p},
                          !.aSavepoint = InSavepoints(@, p)],
          J |-> Put(J, g.journalOff + 1, Record(p, old, g.nonce)), sync |-> TRUE]

\* Fault of subjRequiresPage: a page of the rollback journal needs no other copy.
subjRequiresPageOnce(g, p) ==
    p \notin g.pInJournal /\ \E i \in DOMAIN g.aSavepoint : p <= g.aSavepoint[i].nOrig /\ p \notin g.aSavepoint[i].inSavepoint
subjRequiresPage(g, p) ==
    \E i \in DOMAIN g.aSavepoint : p <= g.aSavepoint[i].nOrig /\ p \notin g.aSavepoint[i].inSavepoint

SubJournalled(g, p, old) ==
    IF subjRequiresPage(g, p)
    THEN [g EXCEPT !.sub = Append(@, [pgno |-> p, data |-> old]), !.aSavepoint = InSavepoints(@, p)]
    ELSE g

Written(s, p, d) ==
    LET old == Get(s.g.cache, db.vis, s.g.dbSize, p)
        o == JournalOpened(s.g, s.J)
        w == Journalled(o.g, o.J, p, old)
        g == SubJournalled(w.g, p, old)
    IN  [g |-> [g EXCEPT !.cache = Cached(@, p, d, TRUE, w.sync), !.dbSize = Bigger(@, p)], J |-> w.J]

Now == [g |-> pager, J |-> jrnl.vis]
Becomes(s) == pager' = s.g /\ jrnl' = Seen(jrnl, s.J)
Fresh == ver < MaxVersion /\ ver' = ver + 1

(***************************************************************************)
(* A system call fails.  What its caller does next depends on the task:    *)
(* a statement or a commit that fails is rolled back, a spill or a roll    *)
(* back that fails leaves the pager in the ERROR state.                    *)
(***************************************************************************)
MayFail == faults < MaxFaults /\ faults' = faults + 1

Error(g) == [g EXCEPT !.eState = "ERROR"]

\* pager_unlock forgets the cache of a pager in the ERROR state.
Unlocked(g) == [Opened EXCEPT !.cache = IF g.eState = "ERROR" THEN <<>> ELSE g.cache]

Failed(g) ==
    CASE pc.task = "commit" -> pager' = g /\ pc' = At("mustRollBack", "none")
      [] pc.task = "recover" -> pager' = Unlocked(Error(g)) /\ pc' = Idle
      [] OTHER -> pager' = Error(g) /\ pc' = Idle

(***************************************************************************)
(* Savepoints.                                                             *)
(***************************************************************************)
FirstOfPage(changes) ==
    [k \in {j \in DOMAIN changes : \A m \in DOMAIN changes : m < j => changes[m].pgno # changes[j].pgno} |-> changes[k]]

\* The block that readJournalHdr takes for the header in progress: the one at journalHdr,
\* which is the end of the records when a commit has synced them.
InProgress(g) == IF setting.aligned THEN g.journalHdr + 1 ELSE g.header

\* What pagerPlaybackSavepoint reads: the records the rollback journal got since the
\* savepoint, then those of the sub-journal; the first record of a page counts.
SavepointChanges(g, J, sp) ==
    LET szJ == g.journalOff
        iHdrOff == IF sp.iHdrOffset = 0 THEN szJ ELSE sp.iHdrOffset
        main == Changes(J, (sp.iOffset + 1 .. iHdrOff) \cup Blocks(J, iHdrOff + 1, szJ, InProgress(g), FALSE), sp.nOrig)
        sub == {i \in sp.iSubRec + 1 .. Len(g.sub) : g.sub[i].pgno <= sp.nOrig}
        all == [k \in DOMAIN main \cup {szJ + i : i \in sub} |->
                   IF k \in DOMAIN main THEN main[k]
                   ELSE [pgno |-> g.sub[k - szJ].pgno, data |-> g.sub[k - szJ].data, at |-> 0]]
    IN  IF g.jfd THEN The({FirstOfPage(c) : c \in {all}}) ELSE <<>>

\* Fault of SafeToStore: only the cached page is restored.
SafeToStoreNever(g, c) == FALSE
\* pager_playback_one_page writes the file only when the journal holds the page for good.
SafeToStore(g, c) ==
    /\ g.eState \in {"DBMOD", "FINISHED"}
    /\ IF c.at > 0 THEN c.at <= g.journalHdr ELSE ~Flag(g.cache, c.pgno)

\* The cache after the pages were read back; a page of the sub-journal that is neither
\* cached nor stored is loaded and left dirty.
Restored(cache, pages, load) ==
    [p \in DOMAIN cache \cup load |->
        IF p \notin DOMAIN cache THEN [data |-> pages[p], dirty |-> TRUE, sync |-> FALSE]
        ELSE IF p \in DOMAIN pages THEN [cache[p] EXCEPT !.data = pages[p]] ELSE cache[p]]

Played(g, f, changes) ==
    LET stored == Latest(changes, {k \in DOMAIN changes : SafeToStore(g, changes[k])})
        pages == Pages(changes)
        load == {changes[k].pgno : k \in {m \in DOMAIN changes : changes[m].at = 0}} \ DOMAIN stored
        file == Stored(f, stored)
    IN  [g |-> [g EXCEPT !.cache = Restored(@, pages, load \ DOMAIN g.cache),
                         !.dbFileSize = Bigger(@, IF stored = <<>> THEN 0 ELSE Len(file))],
         f |-> file]

Undone(sp, changes) == Played([pager EXCEPT !.dbSize = sp.nOrig], db.vis, changes)
UndoneAll(sp) == The({Undone(sp, c) : c \in {SavepointChanges(pager, jrnl.vis, sp)}})

\* pagerPlaybackSavepoint without a savepoint: the whole journal.
UndoneToStart ==
    IF ~pager.jfd THEN [g |-> pager, f |-> db.vis]
    ELSE Played([pager EXCEPT !.dbSize = pager.dbOrigSize], db.vis,
                Changes(jrnl.vis, Blocks(jrnl.vis, 1, pager.journalOff, InProgress(pager), FALSE), pager.dbOrigSize))

InTransaction == pager.eState \in Writer /\ pc.task # "rollback" /\ pc.at # "mustRollBack"

OpenSavepoint ==
    /\ pc = Idle /\ pager.eState \in {"LOCKED", "CACHEMOD", "DBMOD"}
    /\ Len(pager.aSavepoint) < MaxSaves
    /\ pager' = [pager EXCEPT !.aSavepoint = Append(@,
           [nOrig |-> pager.dbSize, iHdrOffset |-> 0, iSubRec |-> Len(pager.sub), inSavepoint |-> {},
            iOffset |-> IF pager.jfd /\ pager.journalOff > 0 THEN pager.journalOff ELSE 1])]
    /\ UNCHANGED <<db, jrnl, gone, pc, ver, faults, crashes, setting>>

Release ==
    /\ pc = Idle /\ pager.eState \in Writer
    /\ \E n \in 0 .. Len(pager.aSavepoint) - 1 :
          pager' = [pager EXCEPT !.aSavepoint = SubSeq(@, 1, n), !.sub = IF n = 0 THEN <<>> ELSE @]
    /\ UNCHANGED <<db, jrnl, gone, pc, ver, faults, crashes, setting>>

RollbackTo ==
    /\ pc = Idle /\ pager.eState \in Writer
    /\ \E i \in DOMAIN pager.aSavepoint :
          LET sp == pager.aSavepoint[i]
              s == UndoneAll(sp)
          IN  /\ pager' = [s.g EXCEPT !.aSavepoint = SubSeq(@, 1, i)]
              /\ db' = Seen(db, s.f)
    /\ UNCHANGED <<jrnl, gone, pc, ver, faults, crashes, setting>>

RollbackToFails ==
    /\ pc = Idle /\ pager.eState \in Writer
    /\ \E i \in DOMAIN pager.aSavepoint :
          LET sp == pager.aSavepoint[i]
              all == SavepointChanges(pager, jrnl.vis, sp)
          IN  \E n \in DOMAIN all :
                  /\ pager' = [Undone(sp, Before(all, n)).g EXCEPT !.aSavepoint = SubSeq(@, 1, i),
                                   !.journalOff = IF all[n].at > 0 THEN all[n].at ELSE @]
                  /\ db' = Seen(db, Undone(sp, Before(all, n)).f)
    /\ pc' = At("mustRollBack", "none")
    /\ MayFail
    /\ UNCHANGED <<jrnl, gone, ver, crashes, setting>>

(***************************************************************************)
(* sqlite3BtreeBeginTrans and the changes of a statement.                  *)
(***************************************************************************)
\* newDatabase: an empty database gets its first page.
Created(g) ==
    IF g.dbSize > 0 THEN [g |-> g, J |-> jrnl.vis]
    ELSE Written([g |-> g, J |-> jrnl.vis], 1, [v |-> ver, n |-> 1])

\* lockBtree refuses a database that says it has more pages than its file.
Begin ==
    /\ pc = Idle /\ pager.eState = "READER" /\ nPage <= pager.dbSize
    /\ IF pager.dbSize = 0 THEN Fresh ELSE UNCHANGED ver
    /\ Becomes(Created([pager EXCEPT !.eState = "LOCKED", !.dbOrigSize = pager.dbSize,
                                     !.dbFileSize = pager.dbSize, !.journalOff = 0]))
    /\ UNCHANGED <<db, gone, pc, faults, crashes, setting>>

\* ROLLBACK TO the savepoint that began the transaction: sqlite3BtreeSavepoint(-1).
RollbackToStart ==
    /\ pc = Idle /\ pager.eState \in Writer /\ Fresh
    /\ Becomes(Created([UndoneToStart.g EXCEPT !.aSavepoint = <<>>]))
    /\ db' = Seen(db, UndoneToStart.f)
    /\ UNCHANGED <<gone, pc, faults, crashes, setting>>

InStatement == pc = Idle /\ pager.eState \in {"LOCKED", "CACHEMOD", "DBMOD"} /\ Fresh

ChangePage ==
    /\ InStatement
    /\ \E p \in 1 .. nPage : Becomes(Written(Now, p, [v |-> ver, n |-> Content(p).n]))
    /\ UNCHANGED <<db, gone, pc, faults, crashes, setting>>

\* allocateBtreePage: page 1 takes the new size, then the page is written.
AddPage ==
    /\ InStatement /\ nPage < MaxPages
    /\ Becomes(Written(Written(Now, 1, [v |-> ver, n |-> nPage + 1]), nPage + 1, [v |-> ver, n |-> 0]))
    /\ UNCHANGED <<db, gone, pc, faults, crashes, setting>>

\* The journal cannot be written: the record may be there in part.
ChangeFails ==
    /\ InStatement
    /\ \E p \in 1 .. nPage \ pager.pInJournal :
          LET o == JournalOpened(pager, jrnl.vis)
          IN  /\ p <= pager.dbOrigSize
              /\ \/ /\ pager' = [o.g EXCEPT !.cache = Cached(@, p, Content(p), TRUE, TRUE)]
                    /\ jrnl' = Seen(jrnl, Put(o.J, o.g.journalOff + 1, Junk))
                 \/ /\ pager.eState = "LOCKED"
                    /\ pager' = [pager EXCEPT !.jfd = TRUE]
                    /\ UNCHANGED jrnl
    /\ pc' = At("mustRollBack", "none")
    /\ MayFail
    /\ UNCHANGED <<db, gone, crashes, setting>>

(***************************************************************************)
(* CommitPhaseOne and pagerStress.                                         *)
(***************************************************************************)
\* pager_incr_changecounter writes page 1 in every commit that changes something.
CommitPhaseOne ==
    /\ pc = Idle
    /\ \/ /\ pager.eState \in {"CACHEMOD", "DBMOD"} /\ Fresh
          /\ Becomes(Written(Now, 1, [v |-> ver, n |-> nPage]))
          /\ pc' = At("syncRecords", "commit")
       \/ /\ pager.eState = "LOCKED"
          /\ pc' = At("finalize", "commit")
          /\ UNCHANGED <<pager, jrnl, ver>>
    /\ UNCHANGED <<db, gone, faults, crashes, setting>>

\* Fault of Spill: once the file is being written, no page waits for the journal.
SpillAtOnce ==
    /\ pc = Idle /\ pager.eState \in {"CACHEMOD", "DBMOD"}
    /\ \E p \in Dirty :
          pc' = [at |-> IF pager.eState = "CACHEMOD" THEN "syncRecords" ELSE "writePages",
                 task |-> "spill", page |-> p]
    /\ UNCHANGED <<pager, db, jrnl, gone, ver, faults, crashes, setting>>

\* The page cache is full and asks the pager to write a dirty page.
Spill ==
    /\ pc = Idle /\ pager.eState \in {"CACHEMOD", "DBMOD"}
    /\ \E p \in Dirty :
          pc' = [at |-> IF pager.cache[p].sync \/ pager.eState = "CACHEMOD" THEN "syncRecords" ELSE "writePages",
                 task |-> "spill", page |-> p]
    /\ UNCHANGED <<pager, db, jrnl, gone, ver, faults, crashes, setting>>

Goto(step) == pc' = [pc EXCEPT !.at = step]

\* syncJournal destroys a header of an earlier transaction that would come next.
NoStaleHeader(J) ==
    LET next == pager.journalOff + 1
    IN  IF next <= Len(J) /\ J[next].kind = "hdr" THEN [J EXCEPT ![next].magic = FALSE] ELSE J

\* With synchronous=NORMAL there is no sync before the record count.
SyncRecords ==
    /\ pc.at = "syncRecords"
    /\ LET J == NoStaleHeader(jrnl.vis)
       IN  \/ /\ jrnl' = [vis |-> J, safe |-> IF FullSync THEN J ELSE jrnl.safe]
              /\ gone' = IF FullSync THEN NoFile ELSE gone
              /\ Goto("writeCount")
              /\ UNCHANGED <<pager, faults>>
           \/ MayFail /\ Failed(pager) /\ jrnl' = Seen(jrnl, J) /\ UNCHANGED gone
    /\ UNCHANGED <<db, ver, crashes, setting>>

WriteCount ==
    /\ pc.at = "writeCount"
    /\ \/ /\ jrnl' = Seen(jrnl, Put(jrnl.vis, pager.journalHdr + 1,
                                    Header(TRUE, pager.nRec, pager.nonce, pager.dbOrigSize)))
          /\ Goto("syncCount")
          /\ UNCHANGED <<pager, faults>>
       \/ MayFail /\ Failed(pager) /\ UNCHANGED jrnl
    /\ UNCHANGED <<db, gone, ver, crashes, setting>>

NoSyncFlags(cache) == [p \in DOMAIN cache |-> [cache[p] EXCEPT !.sync = FALSE]]

\* Fault of SyncCount: the header counts as synced when it is written.
SyncCountEarly ==
    /\ pc.at = "syncCount"
    /\ pager' = [pager EXCEPT !.journalHdr = pager.journalOff, !.header = 0, !.cache = NoSyncFlags(@), !.eState = "DBMOD"]
    /\ Goto("writePages")
    /\ UNCHANGED <<db, jrnl, gone, ver, faults, crashes, setting>>

\* Now the file may be written.  A spill starts the next segment of the journal.
SyncCount ==
    /\ pc.at = "syncCount"
    /\ \/ LET off == pager.journalOff
              synced == [pager EXCEPT !.journalHdr = off, !.cache = NoSyncFlags(@), !.eState = "DBMOD"]
          IN  /\ IF pc.task = "spill"
                 THEN /\ pager' = [synced EXCEPT !.nRec = 0, !.nonce = ver, !.journalOff = off + 1, !.header = off + 1,
                              !.aSavepoint = [i \in DOMAIN @ |->
                                  IF @[i].iHdrOffset = 0 THEN [@[i] EXCEPT !.iHdrOffset = off] ELSE @[i]]]
                      /\ jrnl' = [vis |-> Put(jrnl.vis, off + 1, Header(FALSE, 0, ver, pager.dbOrigSize)),
                                  safe |-> jrnl.vis]
                 ELSE pager' = [synced EXCEPT !.header = 0] /\ jrnl' = Synced(jrnl)
              /\ gone' = NoFile
              /\ Goto("writePages")
              /\ UNCHANGED faults
       \/ MayFail /\ Failed(pager) /\ UNCHANGED <<jrnl, gone>>
    /\ UNCHANGED <<db, ver, crashes, setting>>

\* pager_write_pagelist writes in the order of page numbers.
WritePages ==
    /\ pc.at = "writePages"
    /\ LET pages == {p \in IF pc.task = "spill" THEN {pc.page} ELSE Dirty : p <= pager.dbSize}
           file(S) == Stored(db.vis, [p \in S |-> pager.cache[p].data])
           grown(f) == Bigger(pager.dbFileSize, Len(f))
       IN  \/ /\ db' = Seen(db, file(pages))
              /\ pager' = [pager EXCEPT !.dbFileSize = grown(file(pages)), !.cache =
                     [p \in DOMAIN @ |-> IF pc.task = "commit" \/ p = pc.page THEN [@[p] EXCEPT !.dirty = FALSE] ELSE @[p]]]
              /\ IF pc.task = "spill" THEN pc' = Idle ELSE Goto("syncDb")
              /\ UNCHANGED faults
           \/ \E q \in pages :
                 LET part == file({p \in pages : p < q})
                 IN  MayFail /\ db' = Seen(db, part) /\ Failed([pager EXCEPT !.dbFileSize = grown(part)])
    /\ UNCHANGED <<jrnl, gone, ver, crashes, setting>>

SyncDb ==
    /\ pc.at = "syncDb"
    /\ \/ /\ db' = Synced(db)
          /\ pager' = IF pc.task = "commit" THEN [pager EXCEPT !.eState = "FINISHED"] ELSE pager
          /\ Goto("finalize")
          /\ UNCHANGED faults
       \/ MayFail /\ Failed(pager) /\ UNCHANGED db
    /\ UNCHANGED <<jrnl, gone, ver, crashes, setting>>

(***************************************************************************)
(* sqlite3PagerRollback and hot journals: pager_playback.                  *)
(***************************************************************************)
Rollback ==
    /\ pc = Idle \/ pc.at = "mustRollBack"
    /\ pager.eState \in {"LOCKED", "CACHEMOD", "DBMOD"}
    /\ pc' = At(IF pager.eState = "LOCKED" THEN "finalize" ELSE "playback", "rollback")
    /\ UNCHANGED <<pager, db, jrnl, gone, ver, faults, crashes, setting>>

\* sqlite3PagerSharedLock: a hot journal is synced before it is played back, one beside
\* an empty database is deleted.
SharedLock ==
    /\ pc = Idle /\ pager.eState = "OPEN"
    /\ IF Hot(db.vis, jrnl.vis)
       THEN /\ pager' = [pager EXCEPT !.jfd = TRUE, !.journalHdr = Len(jrnl.vis)]
            /\ pc' = At("playback", "recover")
            /\ jrnl' = Synced(jrnl)
            /\ UNCHANGED gone
       ELSE /\ pager' = [pager EXCEPT !.eState = "READER", !.dbSize = Len(db.vis)]
            /\ IF Len(db.vis) = 0 /\ jrnl.vis # <<>> THEN gone' = jrnl /\ jrnl' = NoFile
                                                      ELSE UNCHANGED <<jrnl, gone>>
            /\ UNCHANGED pc
    /\ UNCHANGED <<db, ver, faults, crashes, setting>>

Playback ==
    /\ pc.at = "playback"
    /\ LET J == jrnl.vis
           hot == pc.task = "recover"
           orig == J[1].orig
           blocks == Blocks(J, 1, Len(J), InProgress(pager), hot)
           all == Changes(J, blocks, orig)
           inFile == pager.eState # "CACHEMOD"
           \* what some of the changes do to the file and to the cache
           file(changes) == IF inFile THEN Stored(Sized(db.vis, orig),
                                Latest(changes, {k \in DOMAIN changes : k <= pager.journalHdr}))
                            ELSE db.vis
           cache(changes) == IF hot /\ blocks # {} THEN <<>> ELSE Restored(pager.cache, Pages(changes), {})
           played(changes) == [pager EXCEPT !.dbSize = orig, !.cache = cache(changes),
                                      !.dbFileSize = IF inFile THEN Len(file(changes)) ELSE @]
       IN  \/ /\ db' = Seen(db, file(all))
              /\ pager' = played(all)
              /\ Goto(IF inFile THEN "syncDb" ELSE "finalize")
              /\ UNCHANGED faults
           \/ \E n \in DOMAIN all :
                 MayFail /\ db' = Seen(db, file(Before(all, n))) /\ Failed(played(Before(all, n)))
    /\ UNCHANGED <<jrnl, gone, ver, crashes, setting>>

(***************************************************************************)
(* pager_end_transaction.                                                  *)
(***************************************************************************)
Ended(g) ==
    [g EXCEPT !.eState = "READER", !.jfd = @ /\ JournalMode # "DELETE", !.pInJournal = {}, !.nRec = 0, !.header = 0,
              !.aSavepoint = <<>>, !.sub = <<>>, !.cache = Clean(@, g.dbSize),
              !.journalOff = IF JournalMode = "DELETE" THEN @ ELSE 0,
              !.dbSize = IF pc.task = "recover" THEN Len(db.vis) ELSE @]

ZeroHeader == Header(FALSE, 0, 0, 0)

\* Fault of Removed: the zeroed header is not synced.
RemovedUnsynced ==
    IF JournalMode = "PERSIST" THEN jrnl' = Seen(jrnl, Put(jrnl.vis, 1, ZeroHeader)) /\ UNCHANGED gone
    ELSE jrnl' = NoFile /\ gone' = jrnl
\* What the removal of the journal leaves; it is this that commits.
Removed ==
    IF ~pager.jfd \/ (JournalMode # "DELETE" /\ pager.journalOff = 0 /\ pc.task # "recover")
    THEN UNCHANGED <<jrnl, gone>>
    ELSE CASE JournalMode = "PERSIST" ->
                jrnl' = Synced(Seen(jrnl, Put(jrnl.vis, 1, ZeroHeader))) /\ UNCHANGED gone
           [] JournalMode = "TRUNCATE" /\ FullSync -> jrnl' = NoFile /\ UNCHANGED gone
           [] OTHER -> jrnl' = NoFile /\ gone' = jrnl

\* The removal fails, or the sync after it.
HalfRemoved ==
    \/ UNCHANGED <<jrnl, gone>>
    \/ /\ JournalMode = "PERSIST" /\ pager.jfd /\ jrnl.vis # <<>>
       /\ jrnl' = Seen(jrnl, Put(jrnl.vis, 1, ZeroHeader)) /\ UNCHANGED gone
    \/ /\ JournalMode = "TRUNCATE" /\ FullSync /\ pager.jfd /\ jrnl' = NoFile /\ gone' = jrnl

Finalize ==
    /\ pc.at = "finalize"
    /\ \/ /\ Removed
          /\ pager' = Ended(pager)
          /\ pc' = IF pc.task = "commit" /\ pager.dbFileSize > pager.dbSize THEN At("shrink", "end") ELSE Idle
          /\ UNCHANGED faults
       \/ /\ HalfRemoved /\ MayFail
          /\ pc' = Idle
          /\ pager' = IF pc.task = "recover" THEN Unlocked(Error(pager)) ELSE Error(pager)
    /\ UNCHANGED <<db, ver, crashes, setting>>

\* Pages a spill wrote and a savepoint took back are cut off after the commit.
Shrink ==
    /\ pc.at = "shrink"
    /\ \/ db' = Seen(db, Sized(db.vis, pager.dbSize)) /\ pc' = Idle /\ UNCHANGED <<pager, faults>>
       \/ MayFail /\ Failed(pager) /\ UNCHANGED db
    /\ UNCHANGED <<jrnl, gone, ver, crashes, setting>>

Unlock ==
    /\ pc = Idle /\ pager.eState \in {"READER", "ERROR"}
    /\ pager' = Unlocked(pager)
    /\ UNCHANGED <<db, jrnl, gone, pc, ver, faults, crashes, setting>>

(***************************************************************************)
(* A power failure: of what was not synced, any part is there.             *)
(***************************************************************************)
Survivors(f, torn) ==
    LET old == f.safe  new == f.vis
        kept(n) == {p \in 1 .. n : p <= Len(old) /\ p <= Len(new) /\ old[p] = new[p]}
        made(n, how) == [p \in 1 .. n |->
            IF p \in kept(n) \/ (how[p] = "old" /\ p <= Len(old)) THEN old[p]
            ELSE IF how[p] = "new" /\ p <= Len(new) THEN new[p] ELSE torn]
    IN  UNION {{made(n, how) : how \in [1 .. n \ kept(n) -> {"old", "new", "torn"}]} : n \in {Len(old), Len(new)}}

PowerFailure ==
    /\ crashes < MaxCrashes /\ crashes' = crashes + 1
    /\ \E f \in Survivors(db, Torn) : db' = [vis |-> f, safe |-> f]
    /\ \E J \in Survivors(jrnl, Junk) \cup (IF gone = NoFile THEN {} ELSE Survivors(gone, Junk)) :
          jrnl' = [vis |-> J, safe |-> J]
    /\ gone' = NoFile /\ pager' = Opened /\ pc' = Idle
    /\ UNCHANGED <<ver, faults, setting>>

Next ==
    \/ SharedLock \/ Begin \/ ChangePage \/ AddPage \/ ChangeFails
    \/ OpenSavepoint \/ Release \/ RollbackTo \/ RollbackToStart \/ RollbackToFails
    \/ CommitPhaseOne \/ Spill \/ Rollback \/ Playback
    \/ SyncRecords \/ WriteCount \/ SyncCount \/ WritePages \/ SyncDb
    \/ Finalize \/ Shrink \/ Unlock \/ PowerFailure

Spec == Init /\ [][Next]_vars

-----------------------------------------------------------------------------
TypeOK ==
    /\ pager.eState \in {"OPEN", "READER", "ERROR"} \cup Writer
    /\ pager.pInJournal \subseteq 1 .. pager.dbOrigSize
    /\ \A p \in DOMAIN pager.cache : pager.cache[p] \in [data : Page, dirty : BOOLEAN, sync : BOOLEAN]
    /\ \A i \in DOMAIN pager.aSavepoint :
          pager.aSavepoint[i].nOrig \in 0 .. MaxPages /\ pager.aSavepoint[i].iSubRec \in 0 .. Len(pager.sub)
    /\ \A p \in DOMAIN db.vis : db.vis[p] \in Page
    /\ \A i \in DOMAIN jrnl.vis : jrnl.vis[i].kind \in {"hdr", "rec", "junk"}

FileImage(f) == IF f = <<>> THEN <<>> ELSE Image(<<>>, f, Len(f))
Committed(J) == The({FileImage(f) : f \in {IF Hot(db.vis, J) THEN RolledBack(db.vis, J) ELSE db.vis}})
Base == Committed(jrnl.vis)
Prev == Committed(IF Hot(db.vis, gone.safe) THEN gone.safe ELSE jrnl.safe)

(***************************************************************************)
(* The pager implements atomic commit, roll back and savepoints.  The      *)
(* committed image is what a reader would find after a crash now, the      *)
(* image of a savepoint what a roll back to it would give now; steps that  *)
(* only move data between cache, journal and file change neither.          *)
(***************************************************************************)
Atomic == INSTANCE AtomicDatabase WITH
    base <- Base,
    prev <- Prev,
    view <- IF InTransaction \/ (pager.eState = "READER" /\ pc.task # "recover")
            THEN Image(pager.cache, db.vis, pager.dbSize) ELSE Base,
    saves <- IF ~InTransaction THEN <<>>
             ELSE [i \in DOMAIN pager.aSavepoint |->
                      The({Image(u.g.cache, u.f, u.g.dbSize) : u \in {UndoneAll(pager.aSavepoint[i])}})]

AtomicSpec == Atomic!Spec

\* Between two calls a clean page in the cache is the page of the file: the cache may drop
\* it at any time (sqlite3PcacheMakeClean, pager_playback_one_page).
CleanIsStored ==
    pc = Idle /\ pager.eState \in {"READER"} \cup Writer =>
        \A p \in DOMAIN pager.cache :
            ~pager.cache[p].dirty /\ p <= pager.dbSize => p <= Len(db.vis) /\ pager.cache[p].data = db.vis[p]

\* Where records may end at a sector boundary and a commit failed after it had synced them,
\* readJournalHdr takes a header that an earlier transaction left there for the one in
\* progress, whatever its magic: CleanIsStored does not hold.  Otherwise a roll back reads
\* the records of its own transaction.
OwnRecords == ~setting.aligned \/ faults = 0

CacheSound == TypeOK /\ (OwnRecords => CleanIsStored)

\* The write-ahead rule of syncJournal: a page of the original database differs from its last
\* committed content only when a synced journal, with a synced record count, holds that.
WriteAhead ==
    OwnRecords /\ pager.eState \in Writer /\ FileImage(db.vis) # Base =>
        Hot(db.vis, jrnl.safe) /\ Committed(jrnl.safe) = Base

\* Where the journal is not unlinked, a commit that returned is durable (zeroJournalHdr and
\* the sync of a truncated journal in pager_end_transaction; when that sync fails, the call does).
Durable ==
    faults = 0 /\ (JournalMode = "PERSIST" \/ (JournalMode = "TRUNCATE" /\ FullSync)) =>
        (pc = Idle /\ pager.eState = "READER" => Prev = Base)

\* No call has failed, and syncJournal syncs the records before their count (synchronous=FULL).
Calm == faults = 0 /\ FullSync

\* Atomic commit: the committed image changes only when a commit ends, and then to what its
\* connection saw, and in a power failure, which leaves it or brings back the last image whose
\* commit was not synced.  Statements, spills, roll backs, the recovery from a hot journal and
\* failing system calls keep it, wherever they stop.
CommittedKept ==
    [][OwnRecords' =>
         \/ Base' = Base
         \/ pc.at = "finalize" /\ pc.task = "commit" /\ Base' = Image(pager.cache, db.vis, pager.dbSize)
         \/ crashes' # crashes /\ (Calm => Base' \in {Base, Prev})]_vars

=============================================================================
