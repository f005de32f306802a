---------------------------- MODULE PagerProofs ----------------------------
(***************************************************************************)
(* Proofs about Pager, for any number of pages and any settings of the     *)
(* connection.                                                             *)
(*                                                                         *)
(* CommitsEndure: where the journal is overwritten or truncated and not    *)
(* unlinked, a commit that returned cannot be undone by a power failure.   *)
(* Its inductive invariant is IInv, which says nothing of contents.        *)
(*                                                                         *)
(* The rest is what PagerCacheProofs stands on: what a reader takes from a *)
(* journal of whole segments, WholeInv, the inductive invariant that       *)
(* relates the journal, the cache and the file, and that the statements,   *)
(* the spills and the sync of the journal keep it.                         *)
(***************************************************************************)
EXTENDS Pager, SequenceTheorems, WellFoundedInduction, TLAPS

Fields == {"eState", "jfd", "dbSize", "dbOrigSize", "dbFileSize", "cache", "nRec", "journalOff",
           "journalHdr", "header", "nonce", "pInJournal", "aSavepoint", "sub"}

Shape == DOMAIN pager = Fields /\ DOMAIN pc = {"at", "task", "page"}

\* A file is a sequence of blocks, whatever they hold.
Numbered(f) == Len(f) \in Nat /\ f = [k \in 1 .. Len(f) |-> f[k]]

\* The case of Durable: nothing has failed, and the journal is not unlinked.
Kept == faults = 0 /\ (JournalMode = "PERSIST" \/ (JournalMode = "TRUNCATE" /\ FullSync))

Files ==
    /\ Numbered(jrnl.vis) /\ Numbered(jrnl.safe) /\ Numbered(gone.vis) /\ Numbered(gone.safe)
    /\ pager.journalOff \in Nat /\ pager.journalHdr \in Nat

\* A spill or a commit while its journal is synced, and a commit until its last step.
Writing ==
    \/ pc.at \in {"syncRecords", "writeCount", "syncCount"}
    \/ pc.task = "commit" /\ pc.at # "finalize"

\* Until the transaction's first write the journal is on disk as it is read; from
\* then on it is open.
JournalState ==
    /\ pager.eState \in {"OPEN", "READER"} \cup Writer
    /\ pager.eState \in {"OPEN", "READER", "LOCKED"} => jrnl.safe = jrnl.vis
    /\ pager.eState \in {"CACHEMOD", "DBMOD", "FINISHED"} => pager.jfd = TRUE /\ pager.journalOff # 0
    /\ Writing => pager.eState \in {"CACHEMOD", "DBMOD"}

\* The first transaction of an empty database, before its journal is synced.
Creating ==
    /\ pager.eState = "CACHEMOD"
    /\ pager.dbOrigSize = 0 /\ pager.journalHdr = 0
    /\ Len(jrnl.vis) > 0 /\ jrnl.vis[1].orig = 0
    /\ pc.at \in {"idle", "syncRecords", "writeCount", "syncCount", "playback", "finalize"}
    /\ pc.at \in {"playback", "finalize"} => pc.task = "rollback"
    /\ pc.at = "finalize" => pager.dbSize = 0

\* A journal is unlinked (SharedLock) only beside an empty database, and the
\* unlinking is synced before the database gets its first page.
UnlinkedBesideNothing ==
    gone # NoFile =>
        /\ Len(db.vis) = 0
        /\ \/ pager.eState = "OPEN" /\ pc = Idle
           \/ pager.eState = "READER" /\ pc = Idle /\ pager.dbSize = 0
           \/ Creating

KeptInv == Shape /\ Files /\ JournalState /\ UnlinkedBesideNothing
IInv == faults \in Nat /\ (Kept => KeptInv)

-----------------------------------------------------------------------------
(***************************************************************************)
(* Files.                                                                  *)
(***************************************************************************)
LEMMA LenOf ==
    ASSUME NEW n \in Nat, NEW f, DOMAIN f = 1 .. n, f = [k \in 1 .. n |-> f[k]]
    PROVE  Numbered(f) /\ Len(f) = n
<1> DEFINE S == {f[k] : k \in 1 .. n}
<1>1. f \in [1 .. n -> S]
  OBVIOUS
<1>2. f \in Seq(S) /\ Len(f) = n
  BY <1>1
<1>3. QED
  BY <1>2 DEF Numbered

LEMMA PutFacts ==
    ASSUME NEW f, Numbered(f), NEW i \in Nat \ {0}, NEW x
    PROVE  /\ Numbered(Put(f, i, x))
           /\ Len(Put(f, i, x)) > 0
           /\ Len(f) > 0 /\ i # 1 => Put(f, i, x)[1] = f[1]
           /\ i = 1 => Put(f, i, x)[1] = x
<1> DEFINE g == Put(f, i, x)
           n == IF i > Len(f) THEN i ELSE Len(f)
<1>1. Len(f) \in Nat
  BY DEF Numbered
<1>2. n \in Nat /\ n > 0 /\ n >= Len(f)
  BY <1>1
<1>3. g = [k \in 1 .. n |-> IF k = i THEN x ELSE IF k <= Len(f) THEN f[k] ELSE Zero]
  BY DEF Put
<1> HIDE DEF g, n
<1>4. DOMAIN g = 1 .. n /\ g = [k \in 1 .. n |-> g[k]]
  BY <1>3
<1>5. Numbered(g) /\ Len(g) = n
  BY <1>2, <1>4, LenOf
<1>6. 1 \in 1 .. n
  BY <1>2
<1>7. g[1] = IF 1 = i THEN x ELSE IF 1 <= Len(f) THEN f[1] ELSE Zero
  BY <1>3, <1>6
<1>8. QED
  BY <1>1, <1>2, <1>5, <1>7 DEF g

-----------------------------------------------------------------------------
(***************************************************************************)
(* Writing a page: what it does to the state, the journal and its head.    *)
(***************************************************************************)
\* A pager g with a journal J whose numbers are in order.
Pair(s) ==
    /\ DOMAIN s.g = Fields
    /\ s.g.journalOff \in Nat /\ s.g.journalHdr \in Nat
    /\ Numbered(s.J)

\* What a write makes of s, when the journal was open.
Follows(s, w) ==
    /\ Pair(w)
    /\ w.g.eState = s.g.eState /\ w.g.dbOrigSize = s.g.dbOrigSize
    /\ w.g.journalHdr = s.g.journalHdr /\ w.g.jfd = s.g.jfd
    /\ s.g.journalOff # 0 => w.g.journalOff # 0
    /\ s.g.journalOff # 0 /\ Len(s.J) > 0 => Len(w.J) > 0 /\ w.J[1] = s.J[1]

\* The first write of a transaction opens the journal.
Opens(w) == w.g.eState = "CACHEMOD" /\ w.g.jfd = TRUE /\ w.g.journalOff # 0

\* It starts with a header that has the size of the database.
StartsAt(w, size) ==
    /\ w.g.dbOrigSize = size /\ w.g.journalHdr = 0
    /\ Len(w.J) > 0 /\ w.J[1].orig = size

LEMMA JournalOpenedFacts ==
    ASSUME NEW g, NEW J, Pair([g |-> g, J |-> J])
    PROVE  LET o == JournalOpened(g, J)
           IN  /\ Pair(o)
               /\ o.g.dbOrigSize = g.dbOrigSize
               /\ g.eState # "LOCKED" => o.g = g /\ o.J = J
               /\ g.eState = "LOCKED" =>
                     /\ o.g.eState = "CACHEMOD" /\ o.g.jfd = TRUE /\ o.g.journalHdr = 0 /\ o.g.journalOff = 1
                     /\ Len(o.J) > 0 /\ o.J[1].orig = g.dbOrigSize
<1> DEFINE o == JournalOpened(g, J)
<1>1. DOMAIN g = Fields /\ g.journalOff \in Nat /\ g.journalHdr \in Nat /\ Numbered(J)
  BY DEF Pair
<1>2. CASE g.eState # "LOCKED"
  BY <1>1, <1>2 DEF JournalOpened, Pair
<1>3. CASE g.eState = "LOCKED"
  <2> DEFINE h == Header(FALSE, 0, ver, g.dbOrigSize)
             e == [g EXCEPT !.eState = "CACHEMOD", !.jfd = TRUE, !.pInJournal = {}, !.nRec = 0,
                            !.journalOff = 1, !.journalHdr = 0, !.header = 1, !.nonce = ver]
  <2>1. o = [g |-> e, J |-> Put(J, 1, h)]
    BY <1>3 DEF JournalOpened
  <2>2. DOMAIN e = Fields /\ e.eState = "CACHEMOD" /\ e.jfd = TRUE /\ e.journalOff = 1 /\ e.journalHdr = 0
        /\ e.dbOrigSize = g.dbOrigSize
    BY <1>1 DEF Fields
  <2>3. h.orig = g.dbOrigSize
    BY DEF Header
  <2> HIDE DEF h, e
  <2>4. Numbered(Put(J, 1, h)) /\ Len(Put(J, 1, h)) > 0 /\ Put(J, 1, h)[1] = h
    BY <1>1, PutFacts
  <2>5. o.g = e /\ o.J = Put(J, 1, h)
    BY <2>1
  <2> HIDE DEF o
  <2>6. QED
    BY <1>3, <2>2, <2>3, <2>4, <2>5 DEF Pair, o
<1>4. QED
  BY <1>2, <1>3

LEMMA JournalledFacts ==
    ASSUME NEW g, NEW J, Pair([g |-> g, J |-> J]), NEW p, NEW old
    PROVE  Follows([g |-> g, J |-> J], Journalled(g, J, p, old))
<1> DEFINE w == Journalled(g, J, p, old)
<1>1. DOMAIN g = Fields /\ g.journalOff \in Nat /\ g.journalHdr \in Nat /\ Numbered(J)
  BY DEF Pair
<1>2. CASE w.g = g /\ w.J = J
  BY <1>1, <1>2 DEF Follows, Pair
<1>3. CASE /\ w.g = [g EXCEPT !.journalOff = @ + 1, !.nRec = @ + 1, !.pInJournal = @ \cup {p},
                              !.aSavepoint = InSavepoints(@, p)]
           /\ w.J = Put(J, g.journalOff + 1, Record(p, old, g.nonce))
  <2>1. DOMAIN w.g = Fields /\ w.g.eState = g.eState /\ w.g.journalOff = g.journalOff + 1
        /\ w.g.journalHdr = g.journalHdr /\ w.g.dbOrigSize = g.dbOrigSize /\ w.g.jfd = g.jfd
    BY <1>1, <1>3 DEF Fields
  <2>2. g.journalOff + 1 \in Nat \ {0} /\ (g.journalOff # 0 => g.journalOff + 1 # 1)
    BY <1>1
  <2>3. Numbered(w.J) /\ Len(w.J) > 0
        /\ (Len(J) > 0 /\ g.journalOff # 0 => w.J[1] = J[1])
    BY <1>1, <1>3, <2>2, PutFacts
  <2>4. QED
    BY <1>1, <2>1, <2>2, <2>3 DEF Follows, Pair
<1>4. QED
  BY <1>2, <1>3 DEF Journalled

LEMMA WrittenFacts ==
    ASSUME NEW s, Pair(s), NEW p, NEW d
    PROVE  LET w == Written(s, p, d)
           IN  /\ s.g.eState # "LOCKED" => Follows(s, w)
               /\ s.g.eState = "LOCKED" =>
                     Pair(w) /\ Opens(w) /\ StartsAt(w, s.g.dbOrigSize)
<1> DEFINE old == Get(s.g.cache, db.vis, s.g.dbSize, p)
           o == JournalOpened(s.g, s.J)
           j == Journalled(o.g, o.J, p, old)
           u == SubJournalled(j.g, p, old)
           w == Written(s, p, d)
<1>1. Pair([g |-> s.g, J |-> s.J])
  BY DEF Pair
<1>2. /\ Pair(o)
      /\ o.g.dbOrigSize = s.g.dbOrigSize
      /\ s.g.eState # "LOCKED" => o.g = s.g /\ o.J = s.J
      /\ s.g.eState = "LOCKED" =>
            /\ o.g.eState = "CACHEMOD" /\ o.g.jfd = TRUE /\ o.g.journalHdr = 0 /\ o.g.journalOff = 1
            /\ Len(o.J) > 0 /\ o.J[1].orig = s.g.dbOrigSize
  BY <1>1, JournalOpenedFacts
<1>3. Follows([g |-> o.g, J |-> o.J], j)
  <2>1. Pair([g |-> o.g, J |-> o.J])
    BY <1>2 DEF Pair
  <2>2. QED
    BY <2>1, JournalledFacts
<1>4. /\ w.g = [u EXCEPT !.cache = Cached(@, p, d, TRUE, j.sync), !.dbSize = Bigger(@, p)]
      /\ w.J = j.J
  BY DEF Written
<1> HIDE DEF old, o, j, w
<1>5. /\ DOMAIN j.g = Fields /\ j.g.journalOff \in Nat /\ j.g.journalHdr \in Nat /\ Numbered(j.J)
      /\ j.g.eState = o.g.eState /\ j.g.dbOrigSize = o.g.dbOrigSize
      /\ j.g.journalHdr = o.g.journalHdr /\ j.g.jfd = o.g.jfd
      /\ o.g.journalOff # 0 => j.g.journalOff # 0
      /\ o.g.journalOff # 0 /\ Len(o.J) > 0 => Len(j.J) > 0 /\ j.J[1] = o.J[1]
  BY <1>3 DEF Follows, Pair
<1>6. /\ DOMAIN u = Fields /\ u.eState = j.g.eState /\ u.journalOff = j.g.journalOff
      /\ u.journalHdr = j.g.journalHdr /\ u.jfd = j.g.jfd /\ u.dbOrigSize = j.g.dbOrigSize
  BY <1>5 DEF SubJournalled, Fields
<1> HIDE DEF u
<1>7. /\ DOMAIN w.g = Fields /\ w.g.eState = u.eState /\ w.g.journalOff = u.journalOff
      /\ w.g.journalHdr = u.journalHdr /\ w.g.jfd = u.jfd /\ w.g.dbOrigSize = u.dbOrigSize
  BY <1>4, <1>6 DEF Fields
<1>8. ASSUME s.g.eState # "LOCKED" PROVE Follows(s, w)
  BY <1>2, <1>4, <1>5, <1>6, <1>7, <1>8 DEF Follows, Pair
<1>9. ASSUME s.g.eState = "LOCKED"
      PROVE  Pair(w) /\ Opens(w) /\ StartsAt(w, s.g.dbOrigSize)
  BY <1>2, <1>4, <1>5, <1>6, <1>7, <1>9 DEF Pair, Opens, StartsAt
<1>10. QED
  BY <1>8, <1>9 DEF w

-----------------------------------------------------------------------------
(***************************************************************************)
(* Rolling back: what it does to the state and to an empty file.           *)
(***************************************************************************)
LEMMA TheOne == \A x : The({x}) = x
  BY DEF The

\* Nothing is stored in an empty file.
LEMMA StoredNothing ==
    ASSUME NEW f, Len(f) = 0, NEW c, DOMAIN c = {}
    PROVE  Len(Stored(f, c)) = 0
<1> DEFINE size == CHOOSE n \in DOMAIN c \cup {Len(f)} : \A p \in DOMAIN c \cup {Len(f)} : p <= n
<1>1. size = 0
  OBVIOUS
<1>2. Overlaid(f, c) = [p \in 1 .. 0 |-> IF p \in DOMAIN c THEN c[p] ELSE IF p <= Len(f) THEN f[p] ELSE Zero]
  BY <1>1 DEF Overlaid
<1>3. DOMAIN Overlaid(f, c) = 1 .. 0 /\ Overlaid(f, c) = [k \in 1 .. 0 |-> Overlaid(f, c)[k]]
  BY <1>2
<1>4. {Overlaid(a, b) : a \in {f}, b \in {c}} = {Overlaid(f, c)}
  OBVIOUS
<1>5. Stored(f, c) = Overlaid(f, c)
  BY <1>4, TheOne DEF Stored
<1>6. QED
  BY <1>3, <1>5, LenOf

LEMMA PlayedFacts ==
    ASSUME NEW g, DOMAIN g = Fields, NEW f, NEW changes
    PROVE  LET u == Played(g, f, changes)
           IN  /\ DOMAIN u.g = Fields
               /\ u.g.eState = g.eState /\ u.g.dbOrigSize = g.dbOrigSize /\ u.g.dbSize = g.dbSize
               /\ u.g.journalOff = g.journalOff /\ u.g.journalHdr = g.journalHdr
               /\ u.g.jfd = g.jfd
               /\ Len(f) = 0 /\ g.eState \notin {"DBMOD", "FINISHED"} => Len(u.f) = 0
<1> DEFINE stored == Latest(changes, {k \in DOMAIN changes : SafeToStore(g, changes[k])})
           pages == Pages(changes)
           load == {changes[k].pgno : k \in {m \in DOMAIN changes : changes[m].at = 0}} \ DOMAIN stored
           file == Stored(f, stored)
           u == Played(g, f, changes)
<1>1. /\ u.g = [g EXCEPT !.cache = Restored(@, pages, load \ DOMAIN g.cache),
                         !.dbFileSize = Bigger(@, IF stored = <<>> THEN 0 ELSE Len(file))]
      /\ u.f = file
  BY DEF Played
<1>2. ASSUME Len(f) = 0, g.eState \notin {"DBMOD", "FINISHED"} PROVE Len(file) = 0
  <2>1. DOMAIN stored = {}
    BY <1>2 DEF SafeToStore, Latest
  <2>2. QED
    BY <1>2, <2>1, StoredNothing
<1> HIDE DEF stored, pages, load, file, u
<1>3. /\ DOMAIN u.g = Fields
      /\ u.g.eState = g.eState /\ u.g.dbOrigSize = g.dbOrigSize /\ u.g.dbSize = g.dbSize
      /\ u.g.journalOff = g.journalOff /\ u.g.journalHdr = g.journalHdr
      /\ u.g.jfd = g.jfd
  BY <1>1 DEF Fields
<1>4. QED
  BY <1>1, <1>2, <1>3 DEF u

LEMMA UndoneAllFacts ==
    ASSUME DOMAIN pager = Fields, NEW sp
    PROVE  LET u == UndoneAll(sp)
           IN  /\ DOMAIN u.g = Fields
               /\ u.g.eState = pager.eState /\ u.g.dbOrigSize = pager.dbOrigSize
               /\ u.g.journalOff = pager.journalOff /\ u.g.journalHdr = pager.journalHdr
               /\ u.g.jfd = pager.jfd
               /\ Len(db.vis) = 0 /\ pager.eState \notin {"DBMOD", "FINISHED"} => Len(u.f) = 0
<1> DEFINE c == SavepointChanges(pager, jrnl.vis, sp)
           g == [pager EXCEPT !.dbSize = sp.nOrig]
<1>1. UndoneAll(sp) = The({Undone(sp, x) : x \in {c}})
  BY DEF UndoneAll
<1>2. {Undone(sp, x) : x \in {c}} = {Undone(sp, c)}
  OBVIOUS
<1>3. UndoneAll(sp) = Played(g, db.vis, c)
  BY <1>1, <1>2, TheOne DEF Undone
<1>4. /\ DOMAIN g = Fields
      /\ g.eState = pager.eState /\ g.dbOrigSize = pager.dbOrigSize
      /\ g.journalOff = pager.journalOff /\ g.journalHdr = pager.journalHdr
      /\ g.jfd = pager.jfd
  BY DEF Fields
<1> HIDE DEF c, g
<1>5. QED
  BY <1>3, <1>4, PlayedFacts

LEMMA UndoneToStartFacts ==
    ASSUME DOMAIN pager = Fields
    PROVE  LET u == UndoneToStart
           IN  /\ DOMAIN u.g = Fields
               /\ u.g.eState = pager.eState /\ u.g.dbOrigSize = pager.dbOrigSize
               /\ u.g.journalOff = pager.journalOff /\ u.g.journalHdr = pager.journalHdr
               /\ u.g.jfd = pager.jfd
               /\ Len(db.vis) = 0 /\ pager.eState \notin {"DBMOD", "FINISHED"} => Len(u.f) = 0
<1> DEFINE g == [pager EXCEPT !.dbSize = pager.dbOrigSize]
           c == Changes(jrnl.vis, Blocks(jrnl.vis, 1, pager.journalOff, InProgress(pager), FALSE), pager.dbOrigSize)
<1>1. UndoneToStart = IF ~pager.jfd THEN [g |-> pager, f |-> db.vis] ELSE Played(g, db.vis, c)
  BY DEF UndoneToStart
<1>2. /\ DOMAIN g = Fields
      /\ g.eState = pager.eState /\ g.dbOrigSize = pager.dbOrigSize
      /\ g.journalOff = pager.journalOff /\ g.journalHdr = pager.journalHdr
      /\ g.jfd = pager.jfd
  BY DEF Fields
<1> HIDE DEF c, g
<1>3. CASE ~pager.jfd
  BY <1>1, <1>3
<1>4. CASE pager.jfd
  BY <1>1, <1>2, <1>4, PlayedFacts
<1>5. QED
  BY <1>3, <1>4

LEMMA CreatedFacts ==
    ASSUME NEW g, Pair([g |-> g, J |-> jrnl.vis])
    PROVE  LET c == Created(g)
           IN  /\ g.eState # "LOCKED" => Follows([g |-> g, J |-> jrnl.vis], c)
               /\ g.eState = "LOCKED" =>
                     \/ c.g = g /\ c.J = jrnl.vis /\ g.dbSize # 0
                     \/ Pair(c) /\ Opens(c) /\ StartsAt(c, g.dbOrigSize)
<1> DEFINE s == [g |-> g, J |-> jrnl.vis]
           c == Created(g)
<1>1. c = (IF g.dbSize > 0 THEN s
           ELSE Written(s, 1, [v |-> ver, n |-> 1]))
  BY DEF Created
<1>2. CASE g.dbSize > 0 /\ c = s
  <2>1. g.dbSize # 0
    BY <1>2
  <2>2. Follows(s, s)
    BY DEF Follows
  <2>3. QED
    BY <1>2, <2>1, <2>2
<1>3. CASE c = Written(s, 1, [v |-> ver, n |-> 1])
  BY <1>3, WrittenFacts
<1>4. QED
  BY <1>1, <1>2, <1>3

LEMMA SurvivorsNumbered ==
    ASSUME NEW f, Numbered(f.vis), Numbered(f.safe), NEW torn, NEW g \in Survivors(f, torn)
    PROVE  Numbered(g)
<1> DEFINE old == f.safe
           new == f.vis
           kept(n) == {p \in 1 .. n : p <= Len(old) /\ p <= Len(new) /\ old[p] = new[p]}
           made(n, how) == [p \in 1 .. n |->
               IF p \in kept(n) \/ (how[p] = "old" /\ p <= Len(old)) THEN old[p]
               ELSE IF how[p] = "new" /\ p <= Len(new) THEN new[p] ELSE torn]
           hows(n) == [1 .. n \ kept(n) -> {"old", "new", "torn"}]
           some(n) == {made(n, how) : how \in hows(n)}
<1>0. g \in UNION {some(n) : n \in {Len(old), Len(new)}}
  BY DEF Survivors
<1>1. PICK n \in {Len(f.safe), Len(f.vis)} : g \in some(n)
  <2> HIDE DEF some
  <2>1. QED
    BY <1>0
<1>3. PICK how \in hows(n) : g = made(n, how)
  BY <1>1
<1>4. DOMAIN g = 1 .. n /\ g = [k \in 1 .. n |-> g[k]]
  <2> HIDE DEF kept, hows
  <2>1. QED
    BY <1>3
<1>2. n \in Nat
  BY DEF Numbered
<1>5. QED
  BY <1>4, <1>2, LenOf

-----------------------------------------------------------------------------
(***************************************************************************)
(* The steps, where nothing fails.                                         *)
(***************************************************************************)
\* A step of a call that touches neither the journal nor what the invariant
\* knows of the pager, and keeps an empty database empty.
LEMMA QuietStep ==
    ASSUME KeptInv, DOMAIN pager' = Fields, DOMAIN pc' = {"at", "task", "page"},
           jrnl' = jrnl, gone' = gone,
           pager'.eState = pager.eState, pager'.dbOrigSize = pager.dbOrigSize,
           pager'.journalOff = pager.journalOff, pager'.journalHdr = pager.journalHdr,
           pager'.jfd = pager.jfd,
           Writing' => pager.eState \in {"CACHEMOD", "DBMOD"},
           gone # NoFile => Len(db'.vis) = 0,
           gone # NoFile /\ pager.eState = "OPEN" => pc' = Idle,
           gone # NoFile /\ pager.eState = "READER" => pc' = Idle /\ pager'.dbSize = 0,
           gone # NoFile /\ pager.eState = "CACHEMOD" =>
               /\ pc'.at \in {"idle", "syncRecords", "writeCount", "syncCount", "playback", "finalize"}
               /\ pc'.at \in {"playback", "finalize"} => pc'.task = "rollback"
               /\ pc'.at = "finalize" => pager'.dbSize = 0
    PROVE  KeptInv'
<1>1. Shape' /\ Files'
  BY DEF KeptInv, Shape, Files
<1>2. JournalState'
  BY DEF KeptInv, JournalState
<1>3. UnlinkedBesideNothing'
  BY DEF KeptInv, UnlinkedBesideNothing, Creating
<1>4. QED
  BY <1>1, <1>2, <1>3 DEF KeptInv

LEMMA OpenSavepointKeeps ==
    ASSUME KeptInv, OpenSavepoint \/ Release
    PROVE  KeptInv'
<1>1. /\ jrnl' = jrnl /\ gone' = gone /\ pc' = pc /\ db' = db
      /\ pc = Idle /\ DOMAIN pager = Fields
      /\ pager.eState \in Writer
  BY DEF OpenSavepoint, Release, Writer, KeptInv, Shape
<1>2. \E x, y : pager' = [pager EXCEPT !.aSavepoint = x, !.sub = y] \/ pager' = [pager EXCEPT !.aSavepoint = x]
  BY DEF OpenSavepoint, Release
<1>3. /\ DOMAIN pager' = Fields
      /\ pager'.eState = pager.eState /\ pager'.dbOrigSize = pager.dbOrigSize
      /\ pager'.journalOff = pager.journalOff /\ pager'.journalHdr = pager.journalHdr
      /\ pager'.jfd = pager.jfd
  BY <1>1, <1>2 DEF Fields
<1>4. gone # NoFile => Len(db.vis) = 0
  BY DEF KeptInv, UnlinkedBesideNothing
<1>5. pc'.at = "idle"
  BY <1>1 DEF Idle
<1>6. DOMAIN pc' = {"at", "task", "page"}
  BY <1>1 DEF KeptInv, Shape
<1>7. QED
  BY <1>1, <1>3, <1>4, <1>5, <1>6, QuietStep DEF Writer, Writing, Idle

LEMMA RollbackToKeeps ==
    ASSUME KeptInv, RollbackTo
    PROVE  KeptInv'
<1>1. /\ jrnl' = jrnl /\ gone' = gone /\ pc' = pc
      /\ pc = Idle /\ DOMAIN pager = Fields
      /\ pager.eState \in Writer
  BY DEF RollbackTo, KeptInv, Shape
<1>2. PICK i \in DOMAIN pager.aSavepoint :
          /\ pager' = [UndoneAll(pager.aSavepoint[i]).g EXCEPT !.aSavepoint = SubSeq(@, 1, i)]
          /\ db' = Seen(db, UndoneAll(pager.aSavepoint[i]).f)
  BY DEF RollbackTo
<1> DEFINE u == UndoneAll(pager.aSavepoint[i])
<1>3. /\ DOMAIN u.g = Fields
      /\ u.g.eState = pager.eState /\ u.g.dbOrigSize = pager.dbOrigSize
      /\ u.g.journalOff = pager.journalOff /\ u.g.journalHdr = pager.journalHdr
      /\ u.g.jfd = pager.jfd
      /\ Len(db.vis) = 0 /\ pager.eState \notin {"DBMOD", "FINISHED"} => Len(u.f) = 0
  BY <1>1, UndoneAllFacts
<1>4. pager' = [u.g EXCEPT !.aSavepoint = SubSeq(@, 1, i)] /\ db'.vis = u.f
  BY <1>2 DEF Seen
<1> HIDE DEF u
<1>5. /\ DOMAIN pager' = Fields
      /\ pager'.eState = pager.eState /\ pager'.dbOrigSize = pager.dbOrigSize
      /\ pager'.journalOff = pager.journalOff /\ pager'.journalHdr = pager.journalHdr
      /\ pager'.jfd = pager.jfd
  BY <1>3, <1>4 DEF Fields
<1>6. gone # NoFile => Len(db'.vis) = 0
  BY <1>1, <1>3, <1>4 DEF KeptInv, UnlinkedBesideNothing, Creating
<1>7. pc'.at = "idle" /\ DOMAIN pc' = {"at", "task", "page"}
  BY <1>1 DEF Idle, KeptInv, Shape
<1>8. QED
  BY <1>1, <1>5, <1>6, <1>7, QuietStep DEF Writer, Writing, Idle

\* A step of a statement, which writes some pages.
LEMMA WriteStep ==
    ASSUME KeptInv, pager.eState \in Writer, pc = Idle, NEW w, Becomes(w), gone' = gone,
           gone # NoFile => Len(db'.vis) = 0,
           pc' \in {Idle, At("syncRecords", "commit")},
           pc' # Idle => pager.eState \in {"LOCKED", "CACHEMOD", "DBMOD"},
           \/ pager.eState # "LOCKED" /\ Follows([g |-> pager, J |-> jrnl.vis], w)
           \/ pager.eState = "LOCKED" /\ Pair(w) /\ Opens(w)
           \/ /\ pager.eState = "LOCKED" /\ Pair(w) /\ w.g.eState = "LOCKED" /\ w.J = jrnl.vis
              /\ pc' = Idle
    PROVE  KeptInv'
<1>0. /\ DOMAIN pc' = {"at", "task", "page"} /\ pc'.at \in {"idle", "syncRecords"}
      /\ pc'.at = "syncRecords" => pc' # Idle
      /\ Writing' => pc' # Idle
  BY DEF Idle, At, Writing
<1>1. pager' = w.g /\ jrnl'.vis = w.J /\ jrnl'.safe = jrnl.safe
  BY DEF Becomes, Seen
<1>2. Pair(w)
  BY DEF Follows
<1>3. Shape'
  BY <1>0, <1>1, <1>2 DEF Shape, Pair
<1>4. Files'
  BY <1>1, <1>2 DEF Files, Pair, KeptInv
<1>5. JournalState'
  BY <1>0, <1>1 DEF JournalState, Follows, Opens, KeptInv, Writer
<1>6. UnlinkedBesideNothing'
  <2> SUFFICES ASSUME gone # NoFile PROVE UnlinkedBesideNothing'
    BY DEF UnlinkedBesideNothing
  <2>1. Creating /\ pager.eState = "CACHEMOD"
    BY DEF KeptInv, UnlinkedBesideNothing, Writer, Creating
  <2>2. Follows([g |-> pager, J |-> jrnl.vis], w)
    BY <2>1
  <2>3. /\ w.g.eState = pager.eState /\ w.g.dbOrigSize = pager.dbOrigSize
        /\ w.g.journalHdr = pager.journalHdr /\ w.g.jfd = pager.jfd
        /\ pager.journalOff # 0 => w.g.journalOff # 0
        /\ pager.journalOff # 0 /\ Len(jrnl.vis) > 0 => Len(w.J) > 0 /\ w.J[1] = jrnl.vis[1]
    BY <2>2 DEF Follows
  <2>4. pager.journalOff # 0
    BY <2>1 DEF KeptInv, JournalState
  <2>6. Creating'
    BY <1>0, <1>1, <2>1, <2>3, <2>4 DEF Creating
  <2>7. QED
    BY <2>6 DEF UnlinkedBesideNothing
<1>7. QED
  BY <1>3, <1>4, <1>5, <1>6 DEF KeptInv

LEMMA NowPair ==
    ASSUME KeptInv PROVE Pair([g |-> pager, J |-> jrnl.vis])
  BY DEF KeptInv, Shape, Files, Pair

LEMMA StatementKeeps ==
    ASSUME KeptInv, ChangePage \/ AddPage \/ CommitPhaseOne
    PROVE  KeptInv'
<1>1. Pair(Now) /\ Now = [g |-> pager, J |-> jrnl.vis]
  BY NowPair DEF Now
<1>2. /\ pc = Idle /\ gone' = gone /\ db' = db /\ pager.eState \in {"LOCKED", "CACHEMOD", "DBMOD"}
      /\ pc.at = "idle" /\ DOMAIN pc = {"at", "task", "page"}
  BY DEF ChangePage, AddPage, CommitPhaseOne, InStatement, Idle, KeptInv, Shape
<1>3. gone # NoFile => Len(db'.vis) = 0
  BY <1>2 DEF KeptInv, UnlinkedBesideNothing
<1>4. ASSUME NEW p, NEW d, Becomes(Written(Now, p, d)),
             pc' \in {Idle, At("syncRecords", "commit")}
      PROVE  KeptInv'
  <2> DEFINE w == Written(Now, p, d)
  <2>1. /\ pager.eState # "LOCKED" => Follows(Now, w)
        /\ pager.eState = "LOCKED" => Pair(w) /\ Opens(w)
    BY <1>1, WrittenFacts
  <2>2. Becomes(w)
    BY <1>4
  <2> HIDE DEF w
  <2>3. QED
    BY <1>1, <1>2, <1>3, <1>4, <2>1, <2>2, WriteStep DEF Writer
<1>5. CASE ChangePage
  <2>1. pc' = pc /\ \E p, d : Becomes(Written(Now, p, d))
    BY <1>5 DEF ChangePage
  <2>2. QED
    BY <1>2, <1>4, <2>1
<1>6. CASE AddPage
  <2>1. PICK p, d, e : pc' = pc /\ Becomes(Written(Written(Now, 1, d), p, e))
    BY <1>6 DEF AddPage
  <2> DEFINE v == Written(Now, 1, d)
             w == Written(v, p, e)
  <2>2. /\ pager.eState # "LOCKED" => Follows(Now, v)
        /\ pager.eState = "LOCKED" => Pair(v) /\ Opens(v)
    BY <1>1, WrittenFacts
  <2>3. Pair(v) /\ v.g.eState # "LOCKED"
    BY <1>1, <1>2, <2>2 DEF Follows, Opens
  <2>4. Follows(v, w)
    BY <2>3, WrittenFacts
  <2>5. Becomes(w)
    BY <2>1
  <2> HIDE DEF v, w
  <2>6. /\ pager.eState # "LOCKED" => Follows(Now, w)
        /\ pager.eState = "LOCKED" => Pair(w) /\ Opens(w)
    BY <2>2, <2>4 DEF Follows, Opens
  <2>7. QED
    BY <1>1, <1>2, <1>3, <2>1, <2>5, <2>6, WriteStep DEF Writer
<1>7. CASE CommitPhaseOne
  <2>1. CASE /\ pager.eState \in {"CACHEMOD", "DBMOD"}
             /\ \E d : Becomes(Written(Now, 1, d))
             /\ pc' = At("syncRecords", "commit")
    BY <1>4, <2>1
  <2>2. CASE /\ pager.eState = "LOCKED"
             /\ pc' = At("finalize", "commit")
             /\ UNCHANGED <<pager, jrnl, ver>>
    <3>1. DOMAIN pc' = {"at", "task", "page"} /\ pc'.at = "finalize"
      BY <2>2 DEF At
    <3>2. gone = NoFile
      BY <2>2 DEF KeptInv, UnlinkedBesideNothing, Creating
    <3>3. DOMAIN pager' = Fields
      BY <2>2 DEF KeptInv, Shape
    <3>4. QED
      BY <1>2, <2>2, <3>1, <3>2, <3>3, QuietStep DEF Writing
  <2>3. QED
    BY <1>7, <2>1, <2>2 DEF CommitPhaseOne
<1>8. QED
  BY <1>5, <1>6, <1>7

LEMMA RollbackToStartKeeps ==
    ASSUME KeptInv, RollbackToStart
    PROVE  KeptInv'
<1> DEFINE u == UndoneToStart
           g == [u.g EXCEPT !.aSavepoint = <<>>]
           w == Created(g)
<1>1. /\ pc = Idle /\ pc' = pc /\ gone' = gone /\ pager.eState \in Writer
      /\ pc.at = "idle" /\ DOMAIN pc = {"at", "task", "page"} /\ DOMAIN pager = Fields
      /\ Becomes(w) /\ db'.vis = u.f
  BY DEF RollbackToStart, Idle, KeptInv, Shape, Seen
<1>2. /\ DOMAIN u.g = Fields
      /\ u.g.eState = pager.eState /\ u.g.dbOrigSize = pager.dbOrigSize
      /\ u.g.journalOff = pager.journalOff /\ u.g.journalHdr = pager.journalHdr
      /\ u.g.jfd = pager.jfd
      /\ Len(db.vis) = 0 /\ pager.eState \notin {"DBMOD", "FINISHED"} => Len(u.f) = 0
  BY <1>1, UndoneToStartFacts
<1>3. gone # NoFile => Len(db'.vis) = 0
  BY <1>1, <1>2 DEF KeptInv, UnlinkedBesideNothing, Creating, Writer
<1> HIDE DEF u
<1>4. /\ DOMAIN g = Fields
      /\ g.eState = pager.eState /\ g.dbOrigSize = pager.dbOrigSize
      /\ g.journalOff = pager.journalOff /\ g.journalHdr = pager.journalHdr
      /\ g.jfd = pager.jfd
  BY <1>2 DEF Fields
<1> HIDE DEF g
<1>5. Pair([g |-> g, J |-> jrnl.vis])
  BY <1>4 DEF Pair, KeptInv, Files
<1>6. /\ g.eState # "LOCKED" => Follows([g |-> g, J |-> jrnl.vis], w)
      /\ g.eState = "LOCKED" =>
            \/ w.g = g /\ w.J = jrnl.vis
            \/ Pair(w) /\ Opens(w)
  BY <1>5, CreatedFacts
<1> HIDE DEF w
<1>7. \/ pager.eState # "LOCKED" /\ Follows([g |-> pager, J |-> jrnl.vis], w)
      \/ pager.eState = "LOCKED" /\ Pair(w) /\ Opens(w)
      \/ pager.eState = "LOCKED" /\ Pair(w) /\ w.g.eState = "LOCKED" /\ w.J = jrnl.vis
  <2>1. CASE pager.eState # "LOCKED"
    BY <1>4, <1>6, <2>1 DEF Follows
  <2>2. CASE pager.eState = "LOCKED"
    BY <1>4, <1>5, <1>6, <2>2 DEF Pair
  <2>3. QED
    BY <2>1, <2>2
<1>8. QED
  BY <1>1, <1>3, <1>7, WriteStep

LEMMA BeginKeeps ==
    ASSUME KeptInv, Begin
    PROVE  KeptInv'
<1> DEFINE g == [pager EXCEPT !.eState = "LOCKED", !.dbOrigSize = pager.dbSize,
                              !.dbFileSize = pager.dbSize, !.journalOff = 0]
           w == Created(g)
<1>1. /\ pc = Idle /\ pc' = pc /\ gone' = gone /\ db' = db /\ pager.eState = "READER"
      /\ pc.at = "idle" /\ DOMAIN pc = {"at", "task", "page"} /\ DOMAIN pager = Fields
      /\ Becomes(w)
  BY DEF Begin, Idle, KeptInv, Shape
<1>2. /\ DOMAIN g = Fields /\ g.eState = "LOCKED" /\ g.dbOrigSize = pager.dbSize
      /\ g.dbSize = pager.dbSize /\ g.journalOff = 0 /\ g.journalHdr = pager.journalHdr
  BY <1>1 DEF Fields
<1> HIDE DEF g
<1>3. Pair([g |-> g, J |-> jrnl.vis])
  BY <1>2 DEF Pair, KeptInv, Files
<1>4. \/ w.g = g /\ w.J = jrnl.vis /\ pager.dbSize # 0
      \/ Pair(w) /\ Opens(w) /\ StartsAt(w, pager.dbSize)
  BY <1>2, <1>3, CreatedFacts
<1> HIDE DEF w
<1>5. pager' = w.g /\ jrnl'.vis = w.J /\ jrnl'.safe = jrnl.safe
  BY <1>1 DEF Becomes, Seen
<1>6. Pair(w)
  BY <1>3, <1>4 DEF Pair
<1>7. Shape' /\ Files'
  BY <1>1, <1>5, <1>6 DEF Shape, Files, Pair, KeptInv
<1>8. JournalState'
  BY <1>1, <1>2, <1>4, <1>5 DEF JournalState, KeptInv, Writer, Opens, Writing
<1>9. UnlinkedBesideNothing'
  BY <1>1, <1>2, <1>4, <1>5 DEF UnlinkedBesideNothing, Creating, KeptInv, Opens, StartsAt
<1>10. QED
  BY <1>7, <1>8, <1>9 DEF KeptInv

LEMMA TurnsKeep ==
    ASSUME KeptInv, Spill \/ Rollback
    PROVE  KeptInv'
<1>1. /\ pager' = pager /\ db' = db /\ jrnl' = jrnl /\ gone' = gone
      /\ DOMAIN pager = Fields
      /\ pager.eState \in {"LOCKED", "CACHEMOD", "DBMOD"}
  BY DEF Spill, Rollback, KeptInv, Shape
<1>2. gone # NoFile => Len(db.vis) = 0 /\ pager.eState = "CACHEMOD"
  BY <1>1 DEF KeptInv, UnlinkedBesideNothing, Creating
<1>3. CASE Spill
  <2>1. /\ DOMAIN pc' = {"at", "task", "page"} /\ pc'.task = "spill"
        /\ pc'.at \in {"syncRecords", "writePages"}
        /\ pager.eState = "CACHEMOD" => pc'.at = "syncRecords"
        /\ pager.eState \in {"CACHEMOD", "DBMOD"}
    BY <1>3 DEF Spill
  <2>2. QED
    BY <1>1, <1>2, <2>1, QuietStep DEF Writing
<1>4. CASE Rollback
  <2>1. /\ DOMAIN pc' = {"at", "task", "page"} /\ pc'.task = "rollback"
        /\ pc'.at = IF pager.eState = "LOCKED" THEN "finalize" ELSE "playback"
    BY <1>4 DEF Rollback, At
  <2>2. QED
    BY <1>1, <1>2, <2>1, QuietStep DEF Writing
<1>5. QED
  BY <1>3, <1>4

LEMMA NoStaleHeaderFacts ==
    ASSUME NEW J, Numbered(J), pager.journalOff \in Nat, pager.journalOff # 0
    PROVE  /\ Numbered(NoStaleHeader(J))
           /\ Len(NoStaleHeader(J)) = Len(J)
           /\ Len(J) > 0 => NoStaleHeader(J)[1] = J[1]
<1> DEFINE next == pager.journalOff + 1
           g == NoStaleHeader(J)
<1>1. g = (IF next <= Len(J) /\ J[next].kind = "hdr" THEN [J EXCEPT ![next].magic = FALSE] ELSE J)
  BY DEF NoStaleHeader
<1>2. next # 1 /\ Len(J) \in Nat /\ J = [k \in 1 .. Len(J) |-> J[k]]
  BY DEF Numbered
<1> HIDE DEF next, g
<1>3. DOMAIN g = 1 .. Len(J) /\ g = [k \in 1 .. Len(J) |-> g[k]]
  BY <1>1, <1>2
<1>4. Numbered(g) /\ Len(g) = Len(J)
  BY <1>2, <1>3, LenOf
<1>5. Len(J) > 0 => g[1] = J[1]
  BY <1>1, <1>2
<1>6. QED
  BY <1>4, <1>5 DEF g

LEMMA NothingFails == faults = 0 /\ faults' = 0 => ~MayFail
  BY DEF MayFail

LEMMA SyncRecordsKeeps ==
    ASSUME KeptInv, faults = 0, faults' = 0, SyncRecords
    PROVE  KeptInv'
<1> DEFINE J == NoStaleHeader(jrnl.vis)
<1>1. /\ pc.at = "syncRecords" /\ pager' = pager /\ db' = db
      /\ jrnl'.vis = J /\ jrnl'.safe \in {J, jrnl.safe}
      /\ gone' \in {NoFile, gone}
      /\ pc' = [pc EXCEPT !.at = "writeCount"]
  BY DEF SyncRecords, MayFail, Goto
<1>2. pager.eState \in {"CACHEMOD", "DBMOD"} /\ pager.journalOff # 0 /\ pager.journalOff \in Nat
      /\ Numbered(jrnl.vis) /\ DOMAIN pc = {"at", "task", "page"}
  BY <1>1 DEF KeptInv, JournalState, Writing, Files, Shape
<1>3. /\ Numbered(J) /\ Len(J) = Len(jrnl.vis)
      /\ Len(jrnl.vis) > 0 => J[1] = jrnl.vis[1]
  BY <1>2, NoStaleHeaderFacts
<1>4. DOMAIN pc' = {"at", "task", "page"} /\ pc'.at = "writeCount" /\ pc'.task = pc.task
  BY <1>1, <1>2
<1>5. Numbered(NoFile.vis) /\ Numbered(NoFile.safe)
  BY DEF NoFile, Numbered
<1> HIDE DEF J
<1>6. Shape' /\ Files'
  BY <1>1, <1>3, <1>4, <1>5 DEF KeptInv, Shape, Files
<1>7. JournalState'
  BY <1>1, <1>2 DEF KeptInv, JournalState
<1>8. UnlinkedBesideNothing'
  <2> SUFFICES ASSUME gone' # NoFile PROVE UnlinkedBesideNothing'
    BY DEF UnlinkedBesideNothing
  <2>1. Creating /\ Len(db.vis) = 0
    BY <1>1, <1>2 DEF KeptInv, UnlinkedBesideNothing
  <2>2. QED
    BY <1>1, <1>3, <1>4, <2>1 DEF UnlinkedBesideNothing, Creating
<1>9. QED
  BY <1>6, <1>7, <1>8 DEF KeptInv

LEMMA WriteCountKeeps ==
    ASSUME KeptInv, faults = 0, faults' = 0, WriteCount
    PROVE  KeptInv'
<1> DEFINE h == Header(TRUE, pager.nRec, pager.nonce, pager.dbOrigSize)
           J == Put(jrnl.vis, pager.journalHdr + 1, h)
<1>1. /\ pc.at = "writeCount" /\ pager' = pager /\ db' = db /\ gone' = gone
      /\ jrnl' = [vis |-> J, safe |-> jrnl.safe]
      /\ pc' = [pc EXCEPT !.at = "syncCount"]
  BY NothingFails DEF WriteCount, Goto, Seen
<1>2. /\ pager.eState \in {"CACHEMOD", "DBMOD"} /\ pager.journalHdr \in Nat
      /\ Numbered(jrnl.vis) /\ DOMAIN pc = {"at", "task", "page"}
  BY <1>1 DEF KeptInv, JournalState, Writing, Files, Shape
<1>3. h.orig = pager.dbOrigSize
  BY DEF Header
<1> HIDE DEF h
<1>4. pager.journalHdr + 1 \in Nat \ {0} /\ (pager.journalHdr = 0 => pager.journalHdr + 1 = 1)
  BY <1>2
<1>5. Numbered(J) /\ Len(J) > 0 /\ (pager.journalHdr = 0 => J[1] = h)
  BY <1>2, <1>4, PutFacts
<1>6. DOMAIN pc' = {"at", "task", "page"} /\ pc'.at = "syncCount" /\ pc'.task = pc.task
  BY <1>1, <1>2
<1> HIDE DEF J
<1>7. Shape' /\ Files'
  BY <1>1, <1>5, <1>6 DEF KeptInv, Shape, Files
<1>8. JournalState'
  BY <1>1, <1>2 DEF KeptInv, JournalState
<1>9. UnlinkedBesideNothing'
  BY <1>1, <1>2, <1>3, <1>5, <1>6 DEF KeptInv, UnlinkedBesideNothing, Creating
<1>10. QED
  BY <1>7, <1>8, <1>9 DEF KeptInv

LEMMA SyncCountKeeps ==
    ASSUME KeptInv, faults = 0, faults' = 0, SyncCount
    PROVE  KeptInv'
<1> DEFINE off == pager.journalOff
           synced == [pager EXCEPT !.journalHdr = off, !.cache = NoSyncFlags(@), !.eState = "DBMOD"]
           J == Put(jrnl.vis, off + 1, Header(FALSE, 0, ver, pager.dbOrigSize))
           saves == [i \in DOMAIN synced.aSavepoint |->
                        IF synced.aSavepoint[i].iHdrOffset = 0
                        THEN [synced.aSavepoint[i] EXCEPT !.iHdrOffset = off] ELSE synced.aSavepoint[i]]
<1>1. /\ pc.at = "syncCount" /\ db' = db /\ gone' = NoFile
      /\ \/ /\ pager' = [synced EXCEPT !.nRec = 0, !.nonce = ver, !.journalOff = off + 1, !.header = off + 1,
                                       !.aSavepoint = saves]
            /\ jrnl' = [vis |-> J, safe |-> jrnl.vis]
         \/ pager' = [synced EXCEPT !.header = 0] /\ jrnl' = Synced(jrnl)
      /\ pc' = [pc EXCEPT !.at = "writePages"]
  BY NothingFails DEF SyncCount, Goto
<1>2. /\ pager.eState \in {"CACHEMOD", "DBMOD"} /\ off \in Nat /\ off # 0 /\ pager.jfd = TRUE
      /\ Numbered(jrnl.vis) /\ DOMAIN pc = {"at", "task", "page"} /\ DOMAIN pager = Fields
  BY <1>1 DEF KeptInv, JournalState, Writing, Files, Shape
<1>3. /\ DOMAIN synced = Fields /\ synced.eState = "DBMOD" /\ synced.journalHdr = off
      /\ synced.journalOff = off /\ synced.jfd = TRUE
  BY <1>2 DEF Fields
<1>4. Numbered(J)
  <2>1. off + 1 \in Nat \ {0}
    BY <1>2
  <2>2. QED
    BY <1>2, <2>1, PutFacts
<1>5. DOMAIN pc' = {"at", "task", "page"} /\ pc'.at = "writePages"
  BY <1>1, <1>2
<1>6. Numbered(NoFile.vis) /\ Numbered(NoFile.safe)
  BY DEF NoFile, Numbered
<1> HIDE DEF synced, J, saves
<1>7. /\ DOMAIN pager' = Fields /\ pager'.eState = "DBMOD" /\ pager'.journalHdr = off
      /\ pager'.journalOff \in {off, off + 1} /\ pager'.jfd = TRUE
  BY <1>1, <1>3 DEF Fields
<1>8. Numbered(jrnl'.vis) /\ Numbered(jrnl'.safe)
  BY <1>1, <1>2, <1>4 DEF Synced
<1>9. Shape' /\ Files'
  BY <1>1, <1>2, <1>5, <1>6, <1>7, <1>8 DEF KeptInv, Shape, Files
<1>10. JournalState'
  BY <1>2, <1>7 DEF JournalState, Writer
<1>11. UnlinkedBesideNothing'
  BY <1>1 DEF UnlinkedBesideNothing
<1>12. QED
  BY <1>9, <1>10, <1>11 DEF KeptInv

LEMMA WritePagesKeeps ==
    ASSUME KeptInv, faults = 0, faults' = 0, WritePages
    PROVE  KeptInv'
<1>1. /\ pc.at = "writePages" /\ jrnl' = jrnl /\ gone' = gone
      /\ \E size, cache : pager' = [pager EXCEPT !.dbFileSize = size, !.cache = cache]
      /\ pc' = (IF pc.task = "spill" THEN Idle ELSE [pc EXCEPT !.at = "syncDb"])
  BY NothingFails DEF WritePages, Goto
<1>2. DOMAIN pager = Fields /\ DOMAIN pc = {"at", "task", "page"}
  BY DEF KeptInv, Shape
<1>3. /\ DOMAIN pager' = Fields
      /\ pager'.eState = pager.eState /\ pager'.dbOrigSize = pager.dbOrigSize
      /\ pager'.journalOff = pager.journalOff /\ pager'.journalHdr = pager.journalHdr
      /\ pager'.jfd = pager.jfd
  BY <1>1, <1>2 DEF Fields
<1>4. DOMAIN pc' = {"at", "task", "page"} /\ pc'.at \in {"idle", "syncDb"}
      /\ (pc'.at = "idle" => pc'.task = "none") /\ (pc'.at = "syncDb" => pc'.task = pc.task)
  BY <1>1, <1>2 DEF Idle
<1>5. gone = NoFile
  BY <1>1 DEF KeptInv, UnlinkedBesideNothing, Creating, Idle
<1>6. Writing' => pager.eState \in {"CACHEMOD", "DBMOD"}
  BY <1>1, <1>4 DEF KeptInv, JournalState, Writing
<1>7. QED
  BY <1>1, <1>3, <1>4, <1>5, <1>6, QuietStep

LEMMA SyncDbKeeps ==
    ASSUME KeptInv, faults = 0, faults' = 0, SyncDb
    PROVE  KeptInv'
<1>1. /\ pc.at = "syncDb" /\ jrnl' = jrnl /\ gone' = gone
      /\ pager' = (IF pc.task = "commit" THEN [pager EXCEPT !.eState = "FINISHED"] ELSE pager)
      /\ pc' = [pc EXCEPT !.at = "finalize"]
  BY NothingFails DEF SyncDb, Goto
<1>2. DOMAIN pager = Fields /\ DOMAIN pc = {"at", "task", "page"}
  BY DEF KeptInv, Shape
<1>3. /\ DOMAIN pager' = Fields
      /\ pager'.journalOff = pager.journalOff /\ pager'.journalHdr = pager.journalHdr
      /\ pager'.jfd = pager.jfd
      /\ pager'.eState = IF pc.task = "commit" THEN "FINISHED" ELSE pager.eState
  BY <1>1, <1>2 DEF Fields
<1>4. DOMAIN pc' = {"at", "task", "page"} /\ pc'.at = "finalize"
  BY <1>1, <1>2
<1>5. gone = NoFile
  BY <1>1 DEF KeptInv, UnlinkedBesideNothing, Creating, Idle
<1>6. Shape' /\ Files'
  BY <1>1, <1>3, <1>4 DEF KeptInv, Shape, Files
<1>7. JournalState'
  <2>1. ~Writing'
    BY <1>4 DEF Writing
  <2>2. CASE pc.task = "commit"
    <3>1. pager.eState \in {"CACHEMOD", "DBMOD"}
      BY <1>1, <2>2 DEF KeptInv, JournalState, Writing
    <3>2. QED
      BY <1>3, <2>1, <2>2, <3>1 DEF KeptInv, JournalState, Writer
  <2>3. CASE pc.task # "commit"
    BY <1>1, <1>3, <2>1, <2>3 DEF KeptInv, JournalState
  <2>4. QED
    BY <2>2, <2>3
<1>8. QED
  BY <1>1, <1>5, <1>6, <1>7 DEF KeptInv, UnlinkedBesideNothing

LEMMA SharedLockKeeps ==
    ASSUME KeptInv, SharedLock
    PROVE  KeptInv'
<1>1. /\ pc = Idle /\ pager.eState = "OPEN" /\ db' = db
      /\ DOMAIN pager = Fields /\ DOMAIN pc = {"at", "task", "page"} /\ jrnl.safe = jrnl.vis
      /\ pager.journalOff \in Nat /\ pager.journalHdr \in Nat
      /\ Numbered(jrnl.vis) /\ Numbered(jrnl.safe)
  BY DEF SharedLock, KeptInv, Shape, JournalState, Files
<1>2. Numbered(NoFile.vis) /\ Numbered(NoFile.safe)
  BY DEF NoFile, Numbered
<1>3. CASE Hot(db.vis, jrnl.vis)
  <2>1. /\ pager' = [pager EXCEPT !.jfd = TRUE, !.journalHdr = Len(jrnl.vis)]
        /\ pc' = At("playback", "recover")
        /\ jrnl' = Synced(jrnl) /\ gone' = gone
    BY <1>3 DEF SharedLock
  <2>2. gone = NoFile
    BY <1>3 DEF KeptInv, UnlinkedBesideNothing, Hot
  <2>3. /\ DOMAIN pager' = Fields /\ pager'.eState = "OPEN"
        /\ pager'.journalOff = pager.journalOff /\ pager'.journalHdr = Len(jrnl.vis)
    BY <1>1, <2>1 DEF Fields
  <2>4. DOMAIN pc' = {"at", "task", "page"} /\ pc'.at = "playback" /\ pc'.task = "recover"
    BY <2>1 DEF At
  <2>5. jrnl'.vis = jrnl.vis /\ jrnl'.safe = jrnl.vis
    BY <2>1 DEF Synced
  <2>6. Shape' /\ Files'
    BY <1>1, <1>2, <2>1, <2>2, <2>3, <2>4, <2>5 DEF Shape, Files, Numbered
  <2>7. JournalState'
    BY <2>3, <2>4, <2>5 DEF JournalState, Writing
  <2>8. QED
    BY <2>1, <2>2, <2>6, <2>7 DEF KeptInv, UnlinkedBesideNothing
<1>4. CASE ~Hot(db.vis, jrnl.vis)
  <2>1. /\ pager' = [pager EXCEPT !.eState = "READER", !.dbSize = Len(db.vis)]
        /\ pc' = pc
        /\ \/ Len(db.vis) = 0 /\ gone' = jrnl /\ jrnl' = NoFile
           \/ jrnl' = jrnl /\ gone' = gone
    BY <1>4 DEF SharedLock
  <2>2. /\ DOMAIN pager' = Fields /\ pager'.eState = "READER" /\ pager'.dbSize = Len(db.vis)
        /\ pager'.journalOff = pager.journalOff /\ pager'.journalHdr = pager.journalHdr
    BY <1>1, <2>1 DEF Fields
  <2>3. jrnl'.vis = jrnl'.safe
    BY <1>1, <2>1 DEF NoFile
  <2>4. Numbered(gone'.vis) /\ Numbered(gone'.safe) /\ Numbered(jrnl'.vis) /\ Numbered(jrnl'.safe)
    BY <1>1, <1>2, <2>1 DEF KeptInv, Files
  <2>5. Shape' /\ Files'
    BY <1>1, <2>1, <2>2, <2>4 DEF Shape, Files
  <2>6. JournalState'
    BY <1>1, <2>1, <2>2, <2>3 DEF JournalState, Writing, Idle
  <2>7. gone' # NoFile => Len(db.vis) = 0
    BY <2>1 DEF KeptInv, UnlinkedBesideNothing
  <2>8. UnlinkedBesideNothing'
    BY <1>1, <2>1, <2>2, <2>7 DEF UnlinkedBesideNothing
  <2>9. QED
    BY <2>5, <2>6, <2>8 DEF KeptInv
<1>5. QED
  BY <1>3, <1>4

LEMMA PlaybackKeeps ==
    ASSUME KeptInv, faults = 0, faults' = 0, Playback
    PROVE  KeptInv'
<1> DEFINE J == jrnl.vis
           hot == pc.task = "recover"
           orig == J[1].orig
           blocks == Blocks(J, 1, Len(J), InProgress(pager), hot)
           all == Changes(J, blocks, orig)
           inFile == pager.eState # "CACHEMOD"
           file == IF inFile THEN Stored(Sized(db.vis, orig),
                          Latest(all, {k \in DOMAIN all : k <= pager.journalHdr}))
                   ELSE db.vis
           cache == IF hot /\ blocks # {} THEN <<>> ELSE Restored(pager.cache, Pages(all), {})
           size == IF inFile THEN Len(file) ELSE pager.dbFileSize
<1>0. /\ pc.at = "playback" /\ jrnl' = jrnl /\ gone' = gone
      /\ db' = Seen(db, file)
      /\ pager' = [pager EXCEPT !.dbSize = orig, !.cache = cache, !.dbFileSize = size]
      /\ pc' = [pc EXCEPT !.at = IF inFile THEN "syncDb" ELSE "finalize"]
  BY NothingFails DEF Playback, Goto
<1>1. /\ pc.at = "playback" /\ jrnl' = jrnl /\ gone' = gone
      /\ \E c, n : pager' = [pager EXCEPT !.dbSize = jrnl.vis[1].orig, !.cache = c, !.dbFileSize = n]
      /\ pager.eState = "CACHEMOD" => db'.vis = db.vis
      /\ pc' = [pc EXCEPT !.at = IF pager.eState # "CACHEMOD" THEN "syncDb" ELSE "finalize"]
  BY <1>0 DEF Seen
<1> HIDE DEF hot, blocks, all, inFile, file, cache, size
<1>2. DOMAIN pager = Fields /\ DOMAIN pc = {"at", "task", "page"}
  BY DEF KeptInv, Shape
<1>3. /\ DOMAIN pager' = Fields
      /\ pager'.eState = pager.eState /\ pager'.dbOrigSize = pager.dbOrigSize
      /\ pager'.journalOff = pager.journalOff /\ pager'.journalHdr = pager.journalHdr
      /\ pager'.jfd = pager.jfd /\ pager'.dbSize = jrnl.vis[1].orig
  BY <1>1, <1>2 DEF Fields
<1>4. DOMAIN pc' = {"at", "task", "page"} /\ pc'.task = pc.task
      /\ pc'.at = IF pager.eState # "CACHEMOD" THEN "syncDb" ELSE "finalize"
  BY <1>1, <1>2
<1>5. gone # NoFile => Creating /\ Len(db.vis) = 0
  BY <1>1 DEF KeptInv, UnlinkedBesideNothing, Idle
<1>6. gone # NoFile => /\ pager.eState = "CACHEMOD" /\ Len(db'.vis) = 0
                       /\ pc.task = "rollback" /\ jrnl.vis[1].orig = 0
  BY <1>1, <1>5 DEF Creating
<1>8. Writing' => pager.eState \in {"CACHEMOD", "DBMOD"}
  BY <1>1, <1>4 DEF KeptInv, JournalState, Writing
<1>9. QED
  BY <1>1, <1>3, <1>4, <1>6, <1>8, QuietStep

LEMMA FinalizeKeeps ==
    ASSUME KeptInv, Kept, faults' = 0, Finalize
    PROVE  KeptInv'
<1>1. /\ pc.at = "finalize" /\ Removed /\ pager' = Ended(pager) /\ db' = db
      /\ pc' = (IF pc.task = "commit" /\ pager.dbFileSize > pager.dbSize THEN At("shrink", "end") ELSE Idle)
  BY NothingFails DEF Finalize, Kept
<1>2. DOMAIN pager = Fields /\ DOMAIN pc = {"at", "task", "page"}
      /\ pager.journalOff \in Nat /\ pager.journalHdr \in Nat
      /\ Numbered(jrnl.vis) /\ Numbered(jrnl.safe)
  BY DEF KeptInv, Shape, Files
<1>3. /\ DOMAIN pager' = Fields /\ pager'.eState = "READER"
      /\ pager'.journalOff \in {0, pager.journalOff} /\ pager'.journalHdr = pager.journalHdr
      /\ pc.task # "recover" => pager'.dbSize = pager.dbSize
  BY <1>1, <1>2 DEF Ended, Fields
<1>4. /\ DOMAIN pc' = {"at", "task", "page"} /\ ~Writing'
      /\ pc.task = "rollback" => pc' = Idle
  BY <1>1 DEF At, Idle, Writing
<1>5. /\ gone' = gone
      /\ Numbered(jrnl'.vis) /\ Numbered(jrnl'.safe) /\ jrnl'.safe = jrnl'.vis
  <2>1. CASE jrnl' = jrnl /\ gone' = gone /\ (~pager.jfd \/ pager.journalOff = 0)
    <3>1. jrnl.safe = jrnl.vis
      BY <2>1 DEF KeptInv, JournalState, Writer
    <3>2. QED
      BY <1>2, <2>1, <3>1
  <2>2. CASE jrnl' = Synced(Seen(jrnl, Put(jrnl.vis, 1, ZeroHeader))) /\ gone' = gone
    <3>1. Numbered(Put(jrnl.vis, 1, ZeroHeader))
      BY <1>2, PutFacts
    <3>2. QED
      BY <2>2, <3>1 DEF Synced, Seen
  <2>3. CASE jrnl' = NoFile /\ gone' = gone
    BY <2>3 DEF NoFile, Numbered
  <2>4. QED
    BY <1>1, <2>1, <2>2, <2>3 DEF Removed, Kept
<1>6. Shape' /\ Files'
  BY <1>2, <1>3, <1>4, <1>5 DEF KeptInv, Shape, Files
<1>7. JournalState'
  BY <1>3, <1>4, <1>5 DEF JournalState
<1>8. gone # NoFile => Creating /\ Len(db.vis) = 0
  BY <1>1 DEF KeptInv, UnlinkedBesideNothing, Idle
<1>9. UnlinkedBesideNothing'
  BY <1>1, <1>3, <1>4, <1>5, <1>8 DEF UnlinkedBesideNothing, Creating
<1>10. QED
  BY <1>6, <1>7, <1>9 DEF KeptInv

LEMMA ShrinkKeeps ==
    ASSUME KeptInv, faults = 0, faults' = 0, Shrink
    PROVE  KeptInv'
<1>1. /\ pc.at = "shrink" /\ pc' = Idle /\ pager' = pager /\ jrnl' = jrnl /\ gone' = gone
  BY NothingFails DEF Shrink
<1>2. gone = NoFile
  BY <1>1 DEF KeptInv, UnlinkedBesideNothing, Creating, Idle
<1>3. DOMAIN pager = Fields
  BY DEF KeptInv, Shape
<1>4. DOMAIN pc' = {"at", "task", "page"} /\ ~Writing'
  BY <1>1 DEF Idle, Writing
<1>5. QED
  BY <1>1, <1>2, <1>3, <1>4, QuietStep

\* A closed pager, whatever its cache.
LEMMA OpenedFacts ==
    ASSUME NEW g, \/ g = Opened \/ \E c : g = [Opened EXCEPT !.cache = c]
    PROVE  DOMAIN g = Fields /\ g.eState = "OPEN" /\ g.journalOff = 0 /\ g.journalHdr = 0
<1>1. /\ DOMAIN Opened = Fields /\ Opened.eState = "OPEN"
      /\ Opened.journalOff = 0 /\ Opened.journalHdr = 0
  BY DEF Opened, Fields
<1>2. QED
  BY <1>1 DEF Fields

LEMMA UnlockKeeps ==
    ASSUME KeptInv, Unlock
    PROVE  KeptInv'
<1>1. /\ pc = Idle /\ pc' = pc /\ pager.eState = "READER"
      /\ db' = db /\ jrnl' = jrnl /\ gone' = gone
      /\ \E c : pager' = [Opened EXCEPT !.cache = c]
  BY DEF Unlock, Unlocked, KeptInv, JournalState, Writer
<1>2. DOMAIN pager' = Fields /\ pager'.eState = "OPEN" /\ pager'.journalOff = 0 /\ pager'.journalHdr = 0
  BY <1>1, OpenedFacts
<1>3. Shape' /\ Files'
  BY <1>1, <1>2 DEF KeptInv, Shape, Files
<1>4. JournalState'
  BY <1>1, <1>2 DEF KeptInv, JournalState, Writing, Idle
<1>5. UnlinkedBesideNothing'
  BY <1>1, <1>2 DEF KeptInv, UnlinkedBesideNothing
<1>6. QED
  BY <1>3, <1>4, <1>5 DEF KeptInv

\* A closed pager beside a journal that is on disk as it is read.
AtRest == pager = Opened /\ pc = Idle /\ gone = NoFile /\ jrnl.safe = jrnl.vis /\ Numbered(jrnl.vis)

LEMMA RestIsKept == AtRest => KeptInv
<1> SUFFICES ASSUME AtRest PROVE KeptInv
  OBVIOUS
<1> USE DEF AtRest
<1>1. Shape /\ Files
  BY OpenedFacts DEF Shape, Files, Idle, NoFile, Numbered
<1>2. JournalState
  BY OpenedFacts DEF JournalState, Writing, Idle
<1>3. QED
  BY <1>1, <1>2 DEF KeptInv, UnlinkedBesideNothing

LEMMA PowerFailureKeeps ==
    ASSUME KeptInv, PowerFailure
    PROVE  KeptInv'
<1>1. pager' = Opened /\ pc' = Idle /\ gone' = NoFile
  BY DEF PowerFailure
<1>2. PICK J \in Survivors(jrnl, Junk) \cup (IF gone = NoFile THEN {} ELSE Survivors(gone, Junk)) :
          jrnl' = [vis |-> J, safe |-> J]
  BY DEF PowerFailure
<1>3. Numbered(J)
  BY <1>2, SurvivorsNumbered DEF KeptInv, Files
<1>4. jrnl'.vis = J /\ jrnl'.safe = J
  BY <1>2
<1>5. AtRest'
  BY <1>1, <1>3, <1>4 DEF AtRest
<1>6. (AtRest => KeptInv)'
  BY RestIsKept, PTL
<1>7. QED
  BY <1>5, <1>6

-----------------------------------------------------------------------------
(***************************************************************************)
(* The invariant, and what it says of a commit.                            *)
(***************************************************************************)
LEMMA InitKept == Init => IInv
<1> SUFFICES ASSUME Init PROVE IInv
  OBVIOUS
<1>1. AtRest
  BY DEF Init, AtRest, NoFile, Numbered
<1>2. QED
  BY <1>1, RestIsKept DEF IInv, Init

\* A step that fails is counted; the settings stay.
LEMMA FaultsAreCounted ==
    ASSUME faults \in Nat, [Next]_vars
    PROVE  faults' \in {faults, faults + 1} /\ setting' = setting
<1>1. CASE UNCHANGED vars
  BY <1>1 DEF vars
<1>2. CASE SharedLock \/ Begin \/ ChangePage \/ AddPage \/ ChangeFails
  BY <1>2 DEF SharedLock, Begin, ChangePage, AddPage, ChangeFails, MayFail
<1>3. CASE OpenSavepoint \/ Release \/ RollbackTo \/ RollbackToStart \/ RollbackToFails
  BY <1>3 DEF OpenSavepoint, Release, RollbackTo, RollbackToStart, RollbackToFails, MayFail
<1>4. CASE CommitPhaseOne \/ Spill \/ Rollback \/ Playback
  BY <1>4 DEF CommitPhaseOne, Spill, Rollback, Playback, MayFail
<1>5. CASE SyncRecords \/ WriteCount \/ SyncCount \/ WritePages \/ SyncDb
  BY <1>5 DEF SyncRecords, WriteCount, SyncCount, WritePages, SyncDb, MayFail
<1>6. CASE Finalize \/ Shrink \/ Unlock \/ PowerFailure
  BY <1>6 DEF Finalize, Shrink, Unlock, PowerFailure, MayFail
<1>7. QED
  BY <1>1, <1>2, <1>3, <1>4, <1>5, <1>6 DEF Next

LEMMA StepKept == IInv /\ [Next]_vars => IInv'
<1> SUFFICES ASSUME IInv, [Next]_vars PROVE IInv'
  OBVIOUS
<1>1. faults' \in Nat /\ setting' = setting /\ faults' \in {faults, faults + 1}
  BY FaultsAreCounted DEF IInv
<1> SUFFICES ASSUME Kept' PROVE KeptInv'
  BY <1>1 DEF IInv
<1>2. faults = 0 /\ faults' = 0 /\ Kept
  BY <1>1 DEF Kept, JournalMode, FullSync, IInv
<1>3. KeptInv
  BY <1>2 DEF IInv
<1>4. CASE UNCHANGED vars
  BY <1>3, <1>4 DEF vars, KeptInv, Shape, Files, JournalState, Writing, UnlinkedBesideNothing, Creating
<1>5. CASE OpenSavepoint \/ Release
  BY <1>3, <1>5, OpenSavepointKeeps
<1>6. CASE RollbackTo \/ RollbackToStart
  BY <1>3, <1>6, RollbackToKeeps, RollbackToStartKeeps
<1>7. CASE SharedLock \/ Begin \/ Unlock
  BY <1>3, <1>7, SharedLockKeeps, BeginKeeps, UnlockKeeps
<1>8. CASE ChangePage \/ AddPage \/ CommitPhaseOne
  BY <1>3, <1>8, StatementKeeps
<1>9. CASE Spill \/ Rollback
  BY <1>3, <1>9, TurnsKeep
<1>10. CASE SyncRecords \/ WriteCount \/ SyncCount
  BY <1>2, <1>3, <1>10, SyncRecordsKeeps, WriteCountKeeps, SyncCountKeeps
<1>11. CASE WritePages \/ SyncDb \/ Playback
  BY <1>2, <1>3, <1>11, WritePagesKeeps, SyncDbKeeps, PlaybackKeeps
<1>12. CASE Finalize \/ Shrink
  BY <1>2, <1>3, <1>12, FinalizeKeeps, ShrinkKeeps
<1>13. CASE PowerFailure
  BY <1>3, <1>13, PowerFailureKeeps
<1>14. CASE ChangeFails \/ RollbackToFails
  BY <1>2, <1>14, NothingFails DEF ChangeFails, RollbackToFails
<1>15. QED
  BY <1>4, <1>5, <1>6, <1>7, <1>8, <1>9, <1>10, <1>11, <1>12, <1>13, <1>14 DEF Next

LEMMA KeptIsDurable == IInv => Durable
<1> SUFFICES ASSUME IInv, Kept, pc = Idle, pager.eState = "READER" PROVE Prev = Base
  BY DEF Durable, Kept
<1>1. KeptInv
  BY DEF IInv
<1>2. jrnl.safe = jrnl.vis
  BY <1>1 DEF KeptInv, JournalState
<1>3. ~Hot(db.vis, gone.safe)
  BY <1>1 DEF KeptInv, UnlinkedBesideNothing, NoFile, Hot
<1>4. QED
  BY <1>2, <1>3 DEF Prev, Base

(***************************************************************************)
(* A commit endures: where the journal is overwritten or truncated, and    *)
(* nothing failed, then whenever no call is running and no transaction is  *)
(* open, a power failure leaves the database a reader sees now.            *)
(* pager_end_transaction syncs the zeroed header, or the truncated file,   *)
(* before it returns (zeroJournalHdr; the sync after sqlite3OsTruncate);   *)
(* the journal that sqlite3PagerSharedLock unlinks is beside an empty      *)
(* database, for which no journal is ever hot.                             *)
(***************************************************************************)
THEOREM CommitsEndure == Spec => []Durable
<1>1. Spec => []IInv
  BY InitKept, StepKept, PTL DEF Spec
<1>2. QED
  BY <1>1, KeptIsDurable, PTL

-----------------------------------------------------------------------------
(***************************************************************************)
(* What a reader takes from a journal.                                     *)
(***************************************************************************)
\* A set of numbers that is not empty has a least one,
LEMMA Least ==
    ASSUME NEW S, S \subseteq Nat, S # {}
    PROVE  \E m \in S : \A k \in S : m <= k
<1>1. PICK m \in S : \A k \in S : ~(<<k, m>> \in OpToRel(<, Nat))
  BY NatLessThanWellFounded, WFMin
<1>2. \A k \in S : ~(k < m)
  BY <1>1 DEF OpToRel
<1>3. \A k \in S : m <= k
  BY <1>2
<1>4. QED
  BY <1>3

\* and a greatest one, when it is bounded.
LEMMA Greatest ==
    ASSUME NEW n \in Nat, NEW S, S \subseteq 0 .. n, S # {}
    PROVE  \E m \in S : \A k \in S : k <= m
<1> DEFINE T == {n - k : k \in S}
<1>0. \A k \in S : k \in 0 .. n /\ n - k \in Nat
  OBVIOUS
<1>1. T \subseteq Nat /\ T # {}
  BY <1>0
<1>2. PICK t \in T : \A k \in T : t <= k
  BY <1>1, Least
<1>3. PICK m \in S : t = n - m
  OBVIOUS
<1>4. \A k \in S : n - m <= n - k
  BY <1>2, <1>3
<1>5. \A k \in S : k <= m
  BY <1>0, <1>4
<1>6. QED
  BY <1>5

\* A reader of the journal J: the blocks it takes from the header at i on.
Reads(R, J, limit, hdr, hot) ==
    R = [i \in 1 .. limit + 1 |->
            IF i > limit \/ ~IsHeader(J, i, hdr, hot) THEN {}
            ELSE (i + 1 .. i + GoodRecords(J, i, Count(J, i, hdr, hot, limit), limit))
                 \cup (IF GoodRecords(J, i, Count(J, i, hdr, hot, limit), limit) < Count(J, i, hdr, hot, limit) THEN {}
                       ELSE R[i + Count(J, i, hdr, hot, limit) + 1])]

\* Headers count their records.
Counted(J, limit) == \A i \in 1 .. limit : J[i].kind = "hdr" => J[i].n \in Nat

\* GoodRecords stops at the end of what is read, at the count of the header or at the first
\* record that is not good.
LEMMA GoodRecordsFacts ==
    ASSUME NEW J, NEW limit \in Nat, NEW i \in 1 .. limit, NEW n \in Nat
    PROVE  LET k == GoodRecords(J, i, n, limit)
           IN  /\ k \in 0 .. n /\ i + k <= limit
               /\ \A m \in i + 1 .. i + k : Good(J, m, J[i].nonce)
               /\ k < n => i + k = limit \/ ~Good(J, i + k + 1, J[i].nonce)
<1> DEFINE good == {k \in 0 .. n : i + k <= limit /\ \A m \in i + 1 .. i + k : Good(J, m, J[i].nonce)}
           k == GoodRecords(J, i, n, limit)
<1>1. good \subseteq 0 .. n /\ 0 \in good
  OBVIOUS
<1>2. \E j \in good : \A m \in good : m <= j
  BY <1>1, Greatest
<1>3. k = CHOOSE j \in good : \A m \in good : m <= j
  BY DEF GoodRecords
<1>4. k \in good /\ \A m \in good : m <= k
  BY <1>2, <1>3
<1> HIDE DEF k
<1>5. ASSUME k < n, i + k # limit, Good(J, i + k + 1, J[i].nonce) PROVE FALSE
  <2>1. k + 1 \in 0 .. n /\ i + (k + 1) <= limit
    BY <1>4, <1>5
  <2>2. \A m \in i + 1 .. i + (k + 1) : Good(J, m, J[i].nonce)
    BY <1>4, <1>5
  <2>3. k + 1 \in good
    BY <2>1, <2>2
  <2>4. QED
    BY <1>4, <2>3
<1>6. QED
  BY <1>4, <1>5 DEF k

\* The count that a reader goes by is a number.
LEMMA CountFacts ==
    ASSUME NEW J, NEW limit \in Nat, Counted(J, limit), NEW hdr, NEW hot, NEW i \in 1 .. limit,
           IsHeader(J, i, hdr, hot)
    PROVE  Count(J, i, hdr, hot, limit) \in Nat
  BY DEF Counted, Count, IsHeader

\* There is a reader: the blocks from a header on depend only on those behind them.
LEMMA ReaderExists ==
    ASSUME NEW J, NEW limit \in Nat, Counted(J, limit), NEW hdr, NEW hot
    PROVE  \E R : Reads(R, J, limit, hdr, hot)
<1> DEFINE n(i) == Count(J, i, hdr, hot, limit)
           stop(i) == GoodRecords(J, i, n(i), limit)
           stops(i) == i > limit \/ ~IsHeader(J, i, hdr, hot)
           body(i, R) == IF stops(i) THEN {}
                         ELSE (i + 1 .. i + stop(i)) \cup (IF stop(i) < n(i) THEN {} ELSE R[i + n(i) + 1])
           From(a, R) == \A i \in a .. limit + 1 : R[i] = body(i, R)
           Missing == {a \in 1 .. limit + 1 : ~\E R : From(a, R)}
<1>1. SUFFICES ASSUME Missing # {} PROVE FALSE
  <2>0. \E R : From(1, R)
    <3>0. 1 \notin Missing
      <4> HIDE DEF Missing
      <4>1. QED
        BY <1>1
    <3>1. 1 \in 1 .. limit + 1
      OBVIOUS
    <3> HIDE DEF From
    <3>2. QED
      BY <3>0, <3>1
  <2>1. PICK R : From(1, R)
    BY <2>0
  <2> DEFINE Q == [i \in 1 .. limit + 1 |-> R[i]]
  <2>2. ASSUME NEW i \in 1 .. limit + 1 PROVE Q[i] = body(i, Q)
    <3>1. R[i] = body(i, R)
      BY <2>1
    <3>2. ASSUME ~stops(i), ~(stop(i) < n(i)) PROVE i + n(i) + 1 \in 1 .. limit + 1
      <4>1. n(i) \in Nat /\ i \in 1 .. limit
        BY <3>2, CountFacts
      <4>2. stop(i) \in 0 .. n(i) /\ i + stop(i) <= limit
        BY <4>1, GoodRecordsFacts
      <4> HIDE DEF n, stop
      <4>3. QED
        BY <3>2, <4>1, <4>2
    <3> HIDE DEF n, stop, stops
    <3>3. QED
      BY <3>1, <3>2
  <2>3. Q = [i \in 1 .. limit + 1 |-> Q[i]]
    OBVIOUS
  <2> HIDE DEF Q, body
  <2>4. Q = [i \in 1 .. limit + 1 |-> body(i, Q)]
    BY <2>2, <2>3
  <2>5. Reads(Q, J, limit, hdr, hot)
    BY <2>4 DEF Reads, body
  <2>6. QED
    BY <2>5
<1>2. PICK a \in Missing : \A b \in Missing : b <= a
  <2>1. Missing \subseteq 0 .. limit + 1 /\ limit + 1 \in Nat
    OBVIOUS
  <2> HIDE DEF Missing
  <2>2. QED
    BY <1>1, <2>1, Greatest
<1>3. \E R : \A i \in a + 1 .. limit + 1 : R[i] = body(i, R)
  <2> HIDE DEF body
  <2>1. CASE a = limit + 1
    BY <2>1
  <2>2. CASE a # limit + 1
    <3>1. a + 1 \in 1 .. limit + 1 /\ a + 1 \notin Missing
      BY <1>2, <2>2
    <3>2. QED
      BY <3>1
  <2>3. QED
    BY <2>1, <2>2
<1>4. PICK R : \A i \in a + 1 .. limit + 1 : R[i] = body(i, R)
  BY <1>3
<1> DEFINE Q == [i \in 1 .. limit + 1 |-> IF i = a THEN body(a, R) ELSE R[i]]
<1>5. a \in 1 .. limit + 1
  OBVIOUS
<1>6. ASSUME NEW i \in a .. limit + 1 PROVE body(i, Q) = body(i, R) /\ Q[i] = body(i, R)
  <2>1. ASSUME ~stops(i), ~(stop(i) < n(i)) PROVE i + n(i) + 1 \in a + 1 .. limit + 1
    <3>1. n(i) \in Nat /\ i \in 1 .. limit
      BY <1>5, <2>1, CountFacts
    <3>2. stop(i) \in 0 .. n(i) /\ i + stop(i) <= limit
      BY <3>1, GoodRecordsFacts
    <3> HIDE DEF n, stop
    <3>3. QED
      BY <1>5, <2>1, <3>1, <3>2
  <2>2. \A k \in a + 1 .. limit + 1 : Q[k] = R[k]
    BY <1>5
  <2>3. body(i, Q) = body(i, R)
    <3> HIDE DEF n, stop, stops, Q
    <3>1. QED
      BY <2>1, <2>2
  <2>4. Q[i] = body(i, R)
    <3> HIDE DEF body
    <3>1. CASE i = a
      BY <1>5, <3>1
    <3>2. CASE i # a
      BY <1>4, <1>5, <3>2
    <3>3. QED
      BY <3>1, <3>2
  <2>5. QED
    BY <2>3, <2>4
<1>7. From(a, Q)
  <2> HIDE DEF Q, body
  <2>1. QED
    BY <1>6
<1>8. QED
  <2> HIDE DEF From
  <2>1. QED
    BY <1>7

\* Blocks is what a reader takes.
LEMMA BlocksRead ==
    ASSUME NEW J, NEW limit \in Nat, Counted(J, limit), NEW hdr, NEW hot
    PROVE  \E R : /\ Reads(R, J, limit, hdr, hot)
                  /\ \A from \in 1 .. limit : Blocks(J, from, limit, hdr, hot) = R[from]
<1> DEFINE Run[i \in 1 .. limit + 1] ==
               IF i > limit \/ ~IsHeader(J, i, hdr, hot) THEN {}
               ELSE LET n == Count(J, i, hdr, hot, limit)
                        stop == GoodRecords(J, i, n, limit)
                    IN  (i + 1 .. i + stop) \cup (IF stop < n THEN {} ELSE Run[i + n + 1])
<1>1. \E R : Reads(R, J, limit, hdr, hot)
  BY ReaderExists
<1>2. Reads(Run, J, limit, hdr, hot)
  BY <1>1 DEF Reads
<1>3. \A from \in 1 .. limit : Blocks(J, from, limit, hdr, hot) = Run[from]
  BY DEF Blocks
<1>4. QED
  BY <1>2, <1>3

\* What a reader takes from a header on are records.
LEMMA BlocksAreRecords ==
    ASSUME NEW J, NEW limit \in Nat, Counted(J, limit), NEW hdr, NEW hot, NEW from \in Nat, from > 0
    PROVE  /\ Blocks(J, from, limit, hdr, hot) \subseteq from + 1 .. limit
           /\ \A b \in Blocks(J, from, limit, hdr, hot) : J[b].kind = "rec"
<1>1. CASE from > limit
  <2>1. Blocks(J, from, limit, hdr, hot) = {}
    BY <1>1 DEF Blocks
  <2>2. QED
    BY <2>1
<1>2. CASE ~(from > limit)
  <2>1. PICK R : /\ Reads(R, J, limit, hdr, hot)
                 /\ \A a \in 1 .. limit : Blocks(J, a, limit, hdr, hot) = R[a]
    BY BlocksRead
  <2> DEFINE n(i) == Count(J, i, hdr, hot, limit)
             stop(i) == GoodRecords(J, i, n(i), limit)
             right(i) == R[i] \subseteq i + 1 .. limit /\ \A b \in R[i] : J[b].kind = "rec"
             Bad == {i \in 1 .. limit + 1 : ~right(i)}
  <2>2. SUFFICES ASSUME Bad # {} PROVE FALSE
    <3>1. from \in 1 .. limit + 1 /\ from \in 1 .. limit /\ from \notin Bad
      BY <1>2, <2>2
    <3>2. right(from)
      BY <3>1
    <3>3. QED
      BY <2>1, <3>1, <3>2
  <2>3. PICK a \in Bad : \A b \in Bad : b <= a
    <3>1. Bad \subseteq 0 .. limit + 1 /\ limit + 1 \in Nat
      OBVIOUS
    <3> HIDE DEF Bad
    <3>2. QED
      BY <2>2, <3>1, Greatest
  <2>4. a \in 1 .. limit + 1 /\ ~right(a)
    OBVIOUS
  <2>5. R[a] = IF a > limit \/ ~IsHeader(J, a, hdr, hot) THEN {}
               ELSE (a + 1 .. a + stop(a)) \cup (IF stop(a) < n(a) THEN {} ELSE R[a + n(a) + 1])
    BY <2>1, <2>4 DEF Reads
  <2>6. ASSUME ~(a > limit \/ ~IsHeader(J, a, hdr, hot)) PROVE FALSE
    <3>1. a \in 1 .. limit /\ n(a) \in Nat
      BY <2>4, <2>6, CountFacts
    <3>2. /\ stop(a) \in 0 .. n(a) /\ a + stop(a) <= limit
          /\ \A m \in a + 1 .. a + stop(a) : Good(J, m, J[a].nonce)
      BY <3>1, GoodRecordsFacts
    <3>3. ASSUME ~(stop(a) < n(a)) PROVE right(a + n(a) + 1)
      <4>1. a + n(a) + 1 \in 1 .. limit + 1 /\ ~(a + n(a) + 1 <= a)
        <5> HIDE DEF n, stop
        <5>1. QED
          BY <3>1, <3>2, <3>3
      <4>2. a + n(a) + 1 \notin Bad
        <5> HIDE DEF Bad, n
        <5>1. QED
          BY <2>3, <4>1
      <4> HIDE DEF n, right
      <4>3. QED
        BY <4>1, <4>2
    <3> HIDE DEF n, stop
    <3>4. right(a)
      BY <2>5, <2>6, <3>1, <3>2, <3>3 DEF Good
    <3>5. QED
      BY <2>4, <3>4
  <2>7. QED
    BY <2>4, <2>5, <2>6
<1>3. QED
  BY <1>1, <1>2

(***************************************************************************)
(* The journal of a transaction: segments that were synced with their      *)
(* record count up to h, then the segment in progress.                     *)
(***************************************************************************)
RecordsIn(J, a, b) == {k \in a .. b : J[k].kind = "rec"}
MagicAt(J, i) == i <= Len(J) /\ J[i].kind = "hdr" /\ J[i].magic

IsSegment(J, i, h, orig) ==
    /\ J[i].kind = "hdr" /\ J[i].magic /\ J[i].orig = orig
    /\ i + J[i].n <= h
    /\ \A m \in i + 1 .. i + J[i].n : J[m].kind = "rec" /\ J[m].nonce = J[i].nonce
    /\ i + J[i].n = h \/ J[i + J[i].n + 1].kind = "hdr"
Segments(J, h, orig) == \A i \in 1 .. h : J[i].kind = "rec" \/ IsSegment(J, i, h, orig)

\* A reader takes the records of whole segments and goes on behind them.
LEMMA SegmentsRead ==
    ASSUME NEW J, NEW limit \in Nat, Counted(J, limit), NEW hdr, NEW hot \in BOOLEAN,
           NEW h \in Nat, h <= limit, NEW orig, Segments(J, h, orig), hot \/ hdr \notin 1 .. h,
           NEW R, Reads(R, J, limit, hdr, hot),
           NEW i \in 1 .. h + 1, i = h + 1 \/ J[i].kind = "hdr"
    PROVE  R[i] = RecordsIn(J, i, h) \cup R[h + 1]
<1> DEFINE start(a) == a = h + 1 \/ J[a].kind = "hdr"
           right(a) == R[a] = RecordsIn(J, a, h) \cup R[h + 1]
           Bad == {a \in 1 .. h + 1 : start(a) /\ ~right(a)}
<1>1. SUFFICES ASSUME Bad # {} PROVE FALSE
  <2>1. i \notin Bad
    <3> HIDE DEF Bad
    <3>1. QED
      BY <1>1
  <2>2. QED
    BY <2>1
<1>2. PICK a \in Bad : \A b \in Bad : b <= a
  <2>1. Bad \subseteq 0 .. h + 1 /\ h + 1 \in Nat
    OBVIOUS
  <2> HIDE DEF Bad
  <2>2. QED
    BY <1>1, <2>1, Greatest
<1>3. a \in 1 .. h + 1 /\ start(a) /\ ~right(a)
  OBVIOUS
<1>4. CASE a = h + 1
  <2>1. RecordsIn(J, h + 1, h) = {}
    BY DEF RecordsIn
  <2>2. QED
    BY <1>3, <1>4, <2>1
<1>5. CASE a # h + 1
  <2> DEFINE n == J[a].n
             stop == GoodRecords(J, a, n, limit)
  <2>1. a \in 1 .. h /\ a \in 1 .. limit /\ J[a].kind = "hdr" /\ IsSegment(J, a, h, orig)
    BY <1>3, <1>5 DEF Segments
  <2>2. n \in Nat /\ a + n <= h
    BY <2>1 DEF Counted, IsSegment
  <2>3. IsHeader(J, a, hdr, hot) /\ Count(J, a, hdr, hot, limit) = n
    BY <2>1 DEF IsHeader, Count, IsSegment
  <2>4. R[a] = IF a > limit THEN {}
               ELSE (a + 1 .. a + stop) \cup (IF stop < n THEN {} ELSE R[a + n + 1])
    <3>1. a \in 1 .. limit + 1
      BY <2>1
    <3>2. QED
      BY <2>3, <3>1 DEF Reads
  <2>5. /\ stop \in 0 .. n /\ a + stop <= limit
        /\ stop < n => a + stop = limit \/ ~Good(J, a + stop + 1, J[a].nonce)
    BY <2>1, <2>2, GoodRecordsFacts
  <2>6. \A m \in a + 1 .. a + n : J[m].kind = "rec" /\ J[m].nonce = J[a].nonce
    BY <2>1 DEF IsSegment
  <2>7. a + n = h \/ J[a + n + 1].kind = "hdr"
    BY <2>1 DEF IsSegment
  <2> HIDE DEF n, stop
  <2>8. stop = n
    BY <2>1, <2>2, <2>5, <2>6 DEF Good
  <2>9. R[a] = (a + 1 .. a + n) \cup R[a + n + 1]
    BY <2>1, <2>2, <2>4, <2>8
  <2>10. right(a + n + 1)
    <3>1. a + n + 1 \in 1 .. h + 1 /\ ~(a + n + 1 <= a) /\ start(a + n + 1)
      BY <2>1, <2>2, <2>7
    <3>2. a + n + 1 \notin Bad
      <4> HIDE DEF Bad
      <4>1. QED
        BY <1>2, <3>1
    <3> HIDE DEF right, start
    <3>3. QED
      BY <3>1, <3>2
  <2>11. RecordsIn(J, a, h) = (a + 1 .. a + n) \cup RecordsIn(J, a + n + 1, h)
    <3>1. J[a].kind # "rec"
      BY <2>1
    <3>2. QED
      BY <2>1, <2>2, <2>6, <3>1 DEF RecordsIn
  <2>12. QED
    BY <1>3, <2>9, <2>10, <2>11
<1>6. QED
  BY <1>4, <1>5

\* Behind them, the segment in progress of n records.
LastSegment(J, limit, hdr, hot, i, n) ==
    /\ i > 0 /\ i + n <= limit /\ J[i].kind = "hdr" /\ (J[i].magic \/ (~hot /\ hdr = i))
    /\ J[i].n = n \/ (J[i].n = 0 /\ ~hot /\ hdr = i)
    /\ \A m \in i + 1 .. i + n : J[m].kind = "rec" /\ J[m].nonce = J[i].nonce
    /\ ~hot => i + n = limit \/ ~Good(J, i + n + 1, J[i].nonce)
    /\ i + n + 1 > limit \/ ~IsHeader(J, i + n + 1, hdr, hot) \/ (~J[i].magic /\ J[i].n = 0)

\* The records of the segment in progress are read, and nothing behind them.
LEMMA LastSegmentRead ==
    ASSUME NEW J, NEW limit \in Nat, Counted(J, limit), NEW hdr, NEW hot \in BOOLEAN,
           NEW i \in Nat, NEW n \in Nat, LastSegment(J, limit, hdr, hot, i, n),
           NEW R, Reads(R, J, limit, hdr, hot)
    PROVE  R[i] = i + 1 .. i + n
<1>0. /\ i > 0 /\ i + n <= limit /\ J[i].kind = "hdr" /\ (J[i].magic \/ (~hot /\ hdr = i))
      /\ J[i].n = n \/ (J[i].n = 0 /\ ~hot /\ hdr = i)
      /\ \A m \in i + 1 .. i + n : J[m].kind = "rec" /\ J[m].nonce = J[i].nonce
      /\ ~hot => i + n = limit \/ ~Good(J, i + n + 1, J[i].nonce)
      /\ i + n + 1 > limit \/ ~IsHeader(J, i + n + 1, hdr, hot) \/ (~J[i].magic /\ J[i].n = 0)
  BY DEF LastSegment
<1> USE <1>0
<1> DEFINE c == Count(J, i, hdr, hot, limit)
           stop == GoodRecords(J, i, c, limit)
<1>1. i \in 1 .. limit /\ i \in 1 .. limit + 1 /\ IsHeader(J, i, hdr, hot)
  BY DEF IsHeader
<1>2. c \in Nat
  BY <1>1, CountFacts
<1>3. R[i] = (i + 1 .. i + stop) \cup (IF stop < c THEN {} ELSE R[i + c + 1])
  <2>1. R[i] = IF i > limit \/ ~IsHeader(J, i, hdr, hot) THEN {}
               ELSE (i + 1 .. i + stop) \cup (IF stop < c THEN {} ELSE R[i + c + 1])
    BY <1>1 DEF Reads
  <2>2. ~(i > limit)
    BY <1>1
  <2> HIDE DEF c, stop
  <2>3. QED
    BY <1>1, <2>1, <2>2
<1>4. /\ stop \in 0 .. c /\ i + stop <= limit
      /\ \A m \in i + 1 .. i + stop : Good(J, m, J[i].nonce)
      /\ stop < c => i + stop = limit \/ ~Good(J, i + stop + 1, J[i].nonce)
  BY <1>1, <1>2, GoodRecordsFacts
<1>5. \/ c = n /\ ~(J[i].n = 0 /\ ~hot /\ hdr = i)
      \/ c = limit - i /\ J[i].n = 0 /\ ~hot /\ hdr = i
  BY DEF Count
<1>6. \A m \in i + 1 .. i + n : Good(J, m, J[i].nonce)
  BY DEF Good
<1> HIDE DEF c, stop
<1>7. CASE c = n /\ ~(J[i].n = 0 /\ ~hot /\ hdr = i)
  <2>1. stop = n
    BY <1>1, <1>4, <1>6, <1>7
  <2>2. R[i] = (i + 1 .. i + n) \cup R[i + n + 1]
    BY <1>3, <1>7, <2>1
  <2>3. R[i + n + 1] = {}
    <3>1. i + n + 1 \in 1 .. limit + 1
      OBVIOUS
    <3>2. i + n + 1 > limit \/ ~IsHeader(J, i + n + 1, hdr, hot)
      BY <1>7
    <3>3. QED
      BY <3>1, <3>2 DEF Reads
  <2>4. QED
    BY <2>2, <2>3
<1>8. CASE c = limit - i /\ J[i].n = 0 /\ ~hot /\ hdr = i
  <2>1. ~(stop < n)
    BY <1>1, <1>4, <1>6, <1>8
  <2>2. ~(stop > n)
    <3>1. ASSUME stop > n PROVE FALSE
      <4>1. i + n + 1 \in i + 1 .. i + stop /\ i + n # limit
        BY <1>4, <3>1
      <4>2. QED
        BY <1>4, <1>8, <4>1
    <3>2. QED
      BY <3>1
  <2>3. stop = n
    BY <1>4, <2>1, <2>2
  <2>4. CASE stop < c
    BY <1>3, <2>3, <2>4
  <2>5. CASE ~(stop < c)
    <3>1. i + c + 1 = limit + 1 /\ limit + 1 \in 1 .. limit + 1 /\ limit + 1 > limit
      BY <1>8
    <3>2. R[limit + 1] = {}
      BY <3>1 DEF Reads
    <3>3. QED
      BY <1>3, <2>3, <2>5, <3>1, <3>2
  <2>6. QED
    BY <2>4, <2>5
<1>9. QED
  BY <1>5, <1>7, <1>8

\* The numbers of the blocks of a file.
LEMMA NumberedDomain == \A f : Numbered(f) => DOMAIN f = 1 .. Len(f) /\ Len(f) \in Nat
  BY DEF Numbered

\* Stored is Overlaid: a set of one file and one content has one result.
LEMMA StoredIs == \A x, c : Stored(x, c) = Overlaid(x, c)
<1> TAKE x, c
<1>1. Stored(x, c) = The({Overlaid(a, b) : a \in {x}, b \in {c}})
  BY DEF Stored
<1>2. {Overlaid(a, b) : a \in {x}, b \in {c}} = {Overlaid(x, c)}
  OBVIOUS
<1>3. QED
  BY <1>1, <1>2, TheOne

\* Storing pages in a file: the file grows to the last of them, with zeros in between.
LEMMA StoredFacts ==
    ASSUME NEW f, Numbered(f), NEW N \in Nat, NEW pages, DOMAIN pages \subseteq 1 .. N
    PROVE  LET s == Stored(f, pages)
           IN  /\ Numbered(s)
               /\ Len(s) >= Len(f) /\ (Len(s) = Len(f) \/ Len(s) \in DOMAIN pages)
               /\ \A p \in DOMAIN pages : p <= Len(s)
               /\ \A p \in 1 .. Len(s) :
                     s[p] = IF p \in DOMAIN pages THEN pages[p] ELSE IF p <= Len(f) THEN f[p] ELSE Zero
<1> DEFINE sizes == DOMAIN pages \cup {Len(f)}
           size == CHOOSE n \in sizes : \A p \in sizes : p <= n
           s == Stored(f, pages)
<1>1. Len(f) \in Nat
  BY DEF Numbered
<1>2. size \in sizes /\ \A p \in sizes : p <= size
  <2>1. sizes \subseteq 0 .. (N + Len(f)) /\ sizes # {} /\ N + Len(f) \in Nat
    BY <1>1
  <2>2. \E n \in sizes : \A p \in sizes : p <= n
    BY <2>1, Greatest
  <2>3. QED
    BY <2>2
<1>3. s = Overlaid(f, pages)
  BY StoredIs
<1>4. s = [p \in 1 .. size |-> IF p \in DOMAIN pages THEN pages[p] ELSE IF p <= Len(f) THEN f[p] ELSE Zero]
  BY <1>3 DEF Overlaid
<1>5. size \in Nat
  BY <1>1, <1>2
<1> HIDE DEF size, s
<1>6. DOMAIN s = 1 .. size /\ s = [k \in 1 .. size |-> s[k]]
  BY <1>4
<1>7. Numbered(s) /\ Len(s) = size
  BY <1>5, <1>6, LenOf
<1>8. \A p \in 1 .. size :
          s[p] = IF p \in DOMAIN pages THEN pages[p] ELSE IF p <= Len(f) THEN f[p] ELSE Zero
  BY <1>4
<1>9. QED
  BY <1>1, <1>2, <1>7, <1>8 DEF s

\* Storing what is there changes nothing.
LEMMA StoredSame ==
    ASSUME NEW f, Numbered(f), NEW pages, DOMAIN pages \subseteq 1 .. Len(f),
           \A p \in DOMAIN pages : pages[p] = f[p]
    PROVE  Stored(f, pages) = f
<1> DEFINE s == Stored(f, pages)
<1>1. Len(f) \in Nat /\ f = [k \in 1 .. Len(f) |-> f[k]]
  BY DEF Numbered
<1>2. /\ Numbered(s)
      /\ Len(s) >= Len(f) /\ (Len(s) = Len(f) \/ Len(s) \in DOMAIN pages)
      /\ \A p \in 1 .. Len(s) :
            s[p] = IF p \in DOMAIN pages THEN pages[p] ELSE IF p <= Len(f) THEN f[p] ELSE Zero
  BY <1>1, StoredFacts
<1> HIDE DEF s
<1>3. Len(s) = Len(f) /\ s = [k \in 1 .. Len(s) |-> s[k]]
  <2>1. Len(s) \in Nat /\ s = [k \in 1 .. Len(s) |-> s[k]]
    BY <1>2 DEF Numbered
  <2>2. Len(s) = Len(f)
    <3>1. Len(s) \in Nat /\ Len(f) \in Nat /\ Len(s) >= Len(f)
      BY <1>1, <1>2, <2>1
    <3>2. Len(s) = Len(f) \/ Len(s) \in 1 .. Len(f)
      BY <1>2
    <3>3. QED
      BY <3>1, <3>2
  <2>3. QED
    BY <2>1, <2>2
<1>4. \A p \in 1 .. Len(f) : s[p] = f[p]
  BY <1>1, <1>2, <1>3
<1>5. s = f
  BY <1>1, <1>3, <1>4
<1>6. QED
  BY <1>5 DEF s

\* A file cut or extended to n pages.
LEMMA SizedFacts ==
    ASSUME NEW f, Numbered(f), NEW n \in Nat
    PROVE  /\ Numbered(Sized(f, n)) /\ Len(Sized(f, n)) = n
           /\ \A p \in 1 .. n : Sized(f, n)[p] = IF p <= Len(f) THEN f[p] ELSE Zero
           /\ n = Len(f) => Sized(f, n) = f
<1> DEFINE s == Sized(f, n)
<1>1. s = [k \in 1 .. n |-> IF k <= Len(f) THEN f[k] ELSE Zero]
  BY DEF Sized
<1> HIDE DEF s
<1>2. DOMAIN s = 1 .. n /\ s = [k \in 1 .. n |-> s[k]]
  BY <1>1
<1>3. Numbered(s) /\ Len(s) = n
  BY <1>2, LenOf
<1>4. \A p \in 1 .. n : s[p] = IF p <= Len(f) THEN f[p] ELSE Zero
  BY <1>1
<1>5. n = Len(f) => s = f
  <2>1. f = [k \in 1 .. Len(f) |-> f[k]]
    BY DEF Numbered
  <2>2. QED
    BY <1>2, <1>4, <2>1
<1>6. QED
  BY <1>3, <1>4, <1>5 DEF s

\* A block written to a file, or appended to it.
LEMMA PutBlock ==
    ASSUME NEW f, Numbered(f), NEW i \in Nat, i > 0, i <= Len(f) + 1, NEW x
    PROVE  LET g == Put(f, i, x)
           IN  /\ Numbered(g) /\ Len(g) = (IF i > Len(f) THEN i ELSE Len(f))
               /\ g[i] = x /\ \A k \in 1 .. Len(f) : k # i => g[k] = f[k]
<1> DEFINE g == Put(f, i, x)
           n == IF i > Len(f) THEN i ELSE Len(f)
<1>1. Len(f) \in Nat /\ n \in Nat /\ i \in 1 .. n /\ \A k \in 1 .. Len(f) : k \in 1 .. n
  BY DEF Numbered
<1>2. g = [k \in 1 .. n |-> IF k = i THEN x ELSE IF k <= Len(f) THEN f[k] ELSE Zero]
  BY DEF Put
<1> HIDE DEF g, n
<1>3. DOMAIN g = 1 .. n /\ g = [k \in 1 .. n |-> g[k]]
  BY <1>2
<1>4. Numbered(g) /\ Len(g) = n
  BY <1>1, <1>3, LenOf
<1>5. g[i] = x /\ \A k \in 1 .. Len(f) : k # i => g[k] = f[k]
  BY <1>1, <1>2
<1>6. QED
  BY <1>4, <1>5 DEF g, n

\* Numbered changes to pages, and those that change each page once.
ChangeList(c) == \E n \in Nat : DOMAIN c \subseteq 0 .. n
OncePerPage(c) == \A a, b \in DOMAIN c : c[a].pgno = c[b].pgno => a = b

\* Of several changes to a page the last counts; of one, that one.
LEMMA LatestFacts ==
    ASSUME NEW c, ChangeList(c), NEW S, S \subseteq DOMAIN c
    PROVE  LET l == Latest(c, S)
           IN  /\ \A p \in DOMAIN l : \E k \in S : c[k].pgno = p
               /\ \A k \in S : c[k].pgno \in DOMAIN l
               /\ \A p \in DOMAIN l : \E k \in S : c[k].pgno = p /\ l[p] = c[k].data
               /\ OncePerPage(c) => \A k \in S : c[k].pgno \in DOMAIN l /\ l[c[k].pgno] = c[k].data
<1> DEFINE l == Latest(c, S)
           last(p) == CHOOSE k \in S : c[k].pgno = p /\ \A m \in S : m > k => c[m].pgno # p
<1>1. l = [p \in {c[k].pgno : k \in S} |-> c[last(p)].data]
  BY DEF Latest
<1>2. ASSUME NEW p \in {c[k].pgno : k \in S}
      PROVE  last(p) \in S /\ c[last(p)].pgno = p
  <2> DEFINE T == {k \in S : c[k].pgno = p}
  <2>1. PICK n \in Nat : DOMAIN c \subseteq 0 .. n
    BY DEF ChangeList
  <2>2. T \subseteq 0 .. n /\ T # {}
    BY <2>1
  <2>3. PICK k \in T : \A m \in T : m <= k
    <3> HIDE DEF T
    <3>1. QED
      BY <2>2, Greatest
  <2>4. \A m \in S : m > k => c[m].pgno # p
    BY <2>1, <2>2, <2>3
  <2>5. k \in S /\ c[k].pgno = p
    OBVIOUS
  <2> HIDE DEF T
  <2>6. QED
    BY <2>4, <2>5
<1> HIDE DEF last, l
<1>3. DOMAIN l = {c[k].pgno : k \in S} /\ \A p \in DOMAIN l : l[p] = c[last(p)].data
  BY <1>1
<1>4. \A p \in DOMAIN l : \E k \in S : c[k].pgno = p /\ l[p] = c[k].data
  BY <1>2, <1>3
<1>5. ASSUME OncePerPage(c), NEW k \in S PROVE c[k].pgno \in DOMAIN l /\ l[c[k].pgno] = c[k].data
  <2>1. c[k].pgno \in DOMAIN l
    BY <1>3
  <2>2. PICK j \in S : c[j].pgno = c[k].pgno /\ l[c[k].pgno] = c[j].data
    BY <1>4, <2>1
  <2>3. j = k
    BY <1>5, <2>2 DEF OncePerPage
  <2>4. QED
    BY <2>1, <2>2, <2>3
<1>6. \A k \in S : c[k].pgno \in DOMAIN l
  BY <1>3
<1>7. QED
  BY <1>4, <1>5, <1>6 DEF l

-----------------------------------------------------------------------------
(***************************************************************************)
(* The types.                                                              *)
(***************************************************************************)
\* A block of a journal; records are older than the value v.
IsBlock(x, v) ==
    \/ /\ x.kind = "hdr" /\ "magic" \in DOMAIN x /\ x.magic \in BOOLEAN /\ x.n \in Nat /\ x.nonce \in Nat /\ x.orig \in 0 .. MaxPages
    \/ /\ x.kind = "rec" /\ x.pgno \in 1 .. MaxPages /\ x.data \in Page /\ x.nonce \in Nat /\ x.nonce < v
    \/ x.kind = "junk"

JournalFile(J, v) == Numbered(J) /\ \A i \in 1 .. Len(J) : IsBlock(J[i], v)
DataFile(f) == Numbered(f) /\ Len(f) <= MaxPages /\ \A i \in 1 .. Len(f) : f[i] \in Page

Entry == [pgno : 1 .. MaxPages, data : Page]
Save == [nOrig : 0 .. MaxPages, iHdrOffset : Nat, iSubRec : Nat, inSavepoint : SUBSET Nat, iOffset : Nat]

CacheType(c) ==
    /\ DOMAIN c \subseteq 1 .. MaxPages
    /\ \A p \in DOMAIN c : c[p] \in [data : Page, dirty : BOOLEAN, sync : BOOLEAN] /\ (c[p].sync => c[p].dirty)

PagerType(g) ==
    /\ DOMAIN g = Fields
    /\ g.eState \in {"OPEN", "READER", "ERROR"} \cup Writer /\ g.jfd \in BOOLEAN
    /\ g.dbSize \in 0 .. MaxPages /\ g.dbOrigSize \in 0 .. MaxPages /\ g.dbFileSize \in Nat
    /\ g.nRec \in Nat /\ g.journalOff \in Nat /\ g.journalHdr \in Nat /\ g.header \in Nat
    /\ g.nonce \in Nat
    /\ g.pInJournal \subseteq 1 .. g.dbOrigSize
    /\ CacheType(g.cache)
    /\ g.sub \in Seq(Entry) /\ g.aSavepoint \in Seq(Save)
    /\ \A i \in 1 .. Len(g.aSavepoint) : g.aSavepoint[i].iSubRec <= Len(g.sub)

(***************************************************************************)
(* A transaction that has opened its journal: the pager g, the journal J,  *)
(* what of it is synced, and the file f.                                   *)
(***************************************************************************)
Opened3 == {"CACHEMOD", "DBMOD", "FINISHED"}
LastOf(g) == IF g.header = 0 THEN g.journalHdr ELSE g.journalHdr + 1 + g.nRec
Records(g, J) == RecordsIn(J, 1, LastOf(g))

\* The segment in progress; what follows it is not taken for one of its records.
InProgressRight(g, J) ==
    LET i == g.journalHdr + 1
    IN  /\ J[i].kind = "hdr" /\ J[i].orig = g.dbOrigSize /\ J[i].nonce = g.nonce
        /\ \A m \in i + 1 .. LastOf(g) : J[m].kind = "rec" /\ J[m].nonce = g.nonce
        /\ \A m \in LastOf(g) + 1 .. Len(J) : ~Good(J, m, g.nonce)

Layout(g, J) ==
    /\ g.jfd = TRUE /\ g.journalOff > 0
    /\ 0 < LastOf(g) /\ LastOf(g) <= Len(J)
    /\ J[1].kind = "hdr" /\ J[1].orig = g.dbOrigSize
    /\ Segments(J, g.journalHdr, g.dbOrigSize)
    /\ g.header = 0 \/ (g.header = g.journalHdr + 1 /\ InProgressRight(g, J))
    /\ g.header = 0 => ~MagicAt(J, g.journalHdr + 1)
    /\ (g.eState = "CACHEMOD") = (g.journalHdr = 0)
    /\ g.journalHdr = 0 => g.header = 1

\* One record for each page of the journal.
RecordsRight(g, J) ==
    /\ \A a, b \in Records(g, J) : J[a].pgno = J[b].pgno => a = b
    /\ \A b \in Records(g, J) : J[b].pgno \in g.pInJournal
    /\ \A p \in g.pInJournal : \E b \in Records(g, J) : J[b].pgno = p
    /\ \A b \in Records(g, J) : J[b].pgno = 1 => J[b].data.n <= g.dbOrigSize

\* What is synced of the journal ends with the last whole segment.
SyncedRight(g, J, safe) ==
    /\ Len(safe) >= g.journalHdr
    /\ \A i \in 1 .. g.journalHdr : safe[i] = J[i]
    /\ g.journalHdr > 0 => ~MagicAt(safe, g.journalHdr + 1)

CacheRight(g, J, f) ==
    /\ g.pInJournal \subseteq DOMAIN g.cache
    /\ g.dbOrigSize <= g.dbSize
    /\ \A p \in g.dbOrigSize + 1 .. g.dbSize : p \in DOMAIN g.cache
    /\ g.dbFileSize = Len(f) /\ g.dbOrigSize <= Len(f)
    /\ g.eState = "CACHEMOD" =>
          /\ Len(f) = g.dbOrigSize
          /\ \A p \in DOMAIN g.cache : p \in g.pInJournal \/ p > g.dbOrigSize => g.cache[p].dirty
    /\ \A b \in Records(g, J) : b > g.journalHdr => g.cache[J[b].pgno].sync
    /\ \A p \in DOMAIN g.cache : ~g.cache[p].dirty /\ p <= g.dbSize => p <= Len(f)

\* The records that are not synced, the pages that are not journalled and the clean pages
\* are those of the file.
ContentRight(g, J, f) ==
    /\ \A b \in Records(g, J) : b > g.journalHdr => J[b].data = f[J[b].pgno]
    /\ \A p \in DOMAIN g.cache : p <= g.dbOrigSize /\ p \notin g.pInJournal => g.cache[p].data = f[p]
    /\ \A p \in DOMAIN g.cache : ~g.cache[p].dirty /\ p <= g.dbSize => g.cache[p].data = f[p]

(***************************************************************************)
(* Savepoints.  A roll back to one gives page 1 a size that the database   *)
(* had then.                                                               *)
(***************************************************************************)
PagesOf(g, f) == Get(g.cache, f, g.dbSize, 1).n
MainOne(g, J, sp) == {b \in Records(g, J) : b > sp.iOffset /\ J[b].pgno = 1}
SubOne(g, sp) == {k \in sp.iSubRec + 1 .. Len(g.sub) : g.sub[k].pgno = 1}
FirstOne(g, J, f, sp) ==
    \/ \E b \in MainOne(g, J, sp) : J[b].data.n <= sp.nOrig
    \/ /\ MainOne(g, J, sp) = {}
       /\ \E k \in SubOne(g, sp) : (\A m \in SubOne(g, sp) : k <= m) /\ g.sub[k].data.n <= sp.nOrig
    \/ /\ MainOne(g, J, sp) = {} /\ SubOne(g, sp) = {}
       /\ 1 \notin sp.inSavepoint /\ PagesOf(g, f) <= sp.nOrig

SaveRight(g, J, f, sp) ==
    /\ g.dbOrigSize <= sp.nOrig /\ sp.nOrig <= g.dbSize /\ sp.nOrig > 0
    /\ sp.iOffset > 0 /\ sp.iOffset <= LastOf(g)
    /\ \/ sp.iHdrOffset = 0 /\ sp.iOffset > g.journalHdr
       \/ /\ sp.iOffset <= sp.iHdrOffset /\ sp.iHdrOffset <= g.journalHdr
          /\ \A m \in sp.iOffset + 1 .. sp.iHdrOffset : J[m].kind = "rec"
          /\ J[sp.iHdrOffset + 1].kind = "hdr"
    /\ FirstOne(g, J, f, sp)

Nested(saves) ==
    \A i, j \in 1 .. Len(saves) :
        i <= j => /\ saves[i].nOrig <= saves[j].nOrig /\ saves[i].iOffset <= saves[j].iOffset
                  /\ saves[i].iSubRec <= saves[j].iSubRec

SubRight(g) ==
    \A k \in 1 .. Len(g.sub) : /\ g.sub[k].pgno \in DOMAIN g.cache
                               /\ g.sub[k].pgno \in g.pInJournal \/ g.sub[k].pgno > g.dbOrigSize

SavesRight(g, J, f) ==
    /\ SubRight(g)
    /\ g.dbOrigSize > 0 /\ 1 \notin g.pInJournal => PagesOf(g, f) <= g.dbOrigSize
    /\ \A i \in 1 .. Len(g.aSavepoint) : SaveRight(g, J, f, g.aSavepoint[i])
    /\ Nested(g.aSavepoint)

\* A pager between two calls of a statement, whose values are older than v.
Ready(g, J, f, safe, v) ==
    /\ PagerType(g) /\ JournalFile(J, v) /\ DataFile(f) /\ g.nonce < v
    /\ g.eState \in {"CACHEMOD", "DBMOD"} /\ g.header # 0 /\ g.journalOff = LastOf(g)
    /\ Layout(g, J) /\ ~J[g.journalHdr + 1].magic /\ J[g.journalHdr + 1].n = 0
    /\ RecordsRight(g, J) /\ SyncedRight(g, J, safe)
    /\ CacheRight(g, J, f) /\ (OwnRecords => ContentRight(g, J, f))
    /\ SavesRight(g, J, f)

(***************************************************************************)
(* The inductive invariant WholeInv: the types (Basics), which step of a   *)
(* call goes with which state of the pager (Flow), and for each state of   *)
(* the pager what its cache, the journal and the file have to do with each *)
(* other.                                                                  *)
(***************************************************************************)
\* The cache of g holds what the file f holds.
Reliable(g, f) == \A p \in DOMAIN g.cache : p <= Len(f) /\ (OwnRecords => g.cache[p].data = f[p])

\* No savepoint has anything to undo.
SavesFresh(g) ==
    \A i \in 1 .. Len(g.aSavepoint) :
        LET sp == g.aSavepoint[i]
        IN  sp.nOrig = g.dbSize /\ sp.iHdrOffset = 0 /\ sp.iOffset = 1 /\ sp.iSubRec = 0 /\ sp.inSavepoint = {}

\* A pager that has begun a transaction and not yet opened its journal.
Begun(g, J, f) ==
    /\ ~MagicAt(J, 1)
    /\ g.dbOrigSize = g.dbSize /\ g.dbFileSize = g.dbSize /\ Len(f) = g.dbSize
    /\ g.journalOff = 0 /\ g.header = 0 /\ g.pInJournal = {} /\ g.sub = <<>>
    /\ DOMAIN g.cache \subseteq 1 .. g.dbSize /\ Reliable(g, f)
    /\ PagesOf(g, f) <= g.dbSize
    /\ SavesFresh(g)

Basics ==
    /\ setting \in Settings /\ ver \in Nat /\ ver <= MaxVersion /\ faults \in Nat /\ MaxPages \in Nat /\ MaxPages > 0
    /\ DOMAIN pc = {"at", "task", "page"}
    /\ PagerType(pager) /\ pager.nonce <= ver
    /\ DataFile(db.vis) /\ DataFile(db.safe)
    /\ JournalFile(jrnl.vis, ver) /\ JournalFile(jrnl.safe, ver)
    /\ JournalFile(gone.vis, ver) /\ JournalFile(gone.safe, ver)

Flow ==
    \/ pc = Idle /\ pager.eState \in {"OPEN", "READER", "ERROR", "LOCKED"}
    \/ pc = Idle /\ pager.eState \in {"CACHEMOD", "DBMOD"} /\ pager.header # 0
    \/ pc.at = "mustRollBack" /\ pc.task = "none" /\ pager.eState \in {"LOCKED", "CACHEMOD", "DBMOD"}
    \/ /\ pc.at \in {"syncRecords", "writeCount", "syncCount"} /\ pc.task \in {"spill", "commit"}
       /\ pager.eState \in {"CACHEMOD", "DBMOD"} /\ pager.header # 0
    \/ pc.at = "writePages" /\ pc.task = "spill" /\ pager.eState = "DBMOD" /\ pager.header # 0
    \/ pc.at \in {"writePages", "syncDb"} /\ pc.task = "commit" /\ pager.eState = "DBMOD" /\ pager.header = 0
    \/ pc.at = "finalize" /\ pc.task = "commit" /\ pager.eState = "FINISHED" /\ pager.header = 0
    \/ pc.at = "finalize" /\ pc.task \in {"commit", "rollback"} /\ pager.eState = "LOCKED"
    \/ pc.at \in {"playback", "finalize"} /\ pc.task = "rollback" /\ pager.eState \in {"CACHEMOD", "DBMOD"}
    \/ pc.at = "syncDb" /\ pc.task = "rollback" /\ pager.eState = "DBMOD"
    \/ pc.at \in {"playback", "syncDb", "finalize"} /\ pc.task = "recover" /\ pager.eState = "OPEN"
    \/ pc.at = "shrink" /\ pc.task = "end" /\ pager.eState = "READER"

OpenRight ==
    pager.eState = "OPEN" =>
        /\ pager.pInJournal = {} /\ pager.sub = <<>> /\ pager.header = 0 /\ pager.aSavepoint = <<>>
        /\ DOMAIN pager.cache = {} \/ ~MagicAt(jrnl.vis, 1)
        /\ pc.task = "recover" => pager.jfd = TRUE /\ DOMAIN pager.cache = {}
        /\ pc.at = "playback" => MagicAt(jrnl.vis, 1)
        /\ pc.task # "recover" => Reliable(pager, db.vis)

ReaderRight ==
    pager.eState = "READER" =>
        /\ pager.pInJournal = {} /\ pager.sub = <<>> /\ pager.header = 0 /\ pager.aSavepoint = <<>>
        /\ ~MagicAt(jrnl.vis, 1)
        /\ DOMAIN pager.cache \subseteq 1 .. pager.dbSize /\ Reliable(pager, db.vis)
        /\ pager.dbSize <= Len(db.vis) /\ (pc = Idle => pager.dbSize = Len(db.vis))

LockedRight == pager.eState = "LOCKED" => pager.dbSize > 0 /\ Begun(pager, jrnl.vis, db.vis)

\* How far the commit, spill or roll back in progress has come.
Stage ==
    LET J == jrnl.vis
        i == pager.journalHdr + 1
        next == LastOf(pager) + 1
    IN  /\ pager.header # 0 =>
              \/ ~J[i].magic /\ J[i].n = 0 /\ pc.at # "syncCount"
              \/ /\ J[i].magic /\ J[i].n = pager.nRec /\ ~MagicAt(J, next)
                 /\ pc.at \in {"syncCount", "mustRollBack"} \/ pc.task = "rollback"
        /\ pager.header = 0 =>
              pc.task = "commit" \/ (faults > 0 /\ (pc.at = "mustRollBack" \/ pc.task = "rollback"))
        /\ pc.at \in {"writeCount", "syncCount"} => ~MagicAt(J, next)
        /\ pc.at = "mustRollBack" \/ pc.task = "rollback" \/ pager.journalOff = LastOf(pager)
        /\ pc.at = "writePages" =>
              \A p \in DOMAIN pager.cache : pc.task = "commit" \/ p = pc.page => ~pager.cache[p].sync
        /\ pc.task = "spill" => pc.page \in DOMAIN pager.cache
        /\ pc.at \in {"syncDb", "finalize"} =>
              \A p \in DOMAIN pager.cache : p <= pager.dbSize =>
                  p <= Len(db.vis) /\ (OwnRecords => pager.cache[p].data = db.vis[p])
        /\ pc.at \in {"syncDb", "finalize"} /\ pc.task = "rollback" =>
              pager.dbSize = pager.dbOrigSize /\ Len(db.vis) = pager.dbSize

WriterRight ==
    pager.eState \in Opened3 =>
        /\ Layout(pager, jrnl.vis) /\ RecordsRight(pager, jrnl.vis) /\ SyncedRight(pager, jrnl.vis, jrnl.safe)
        /\ CacheRight(pager, jrnl.vis, db.vis) /\ (OwnRecords => ContentRight(pager, jrnl.vis, db.vis))
        /\ Stage
        /\ pager.header # 0 /\ pc.at # "mustRollBack" /\ pc.task # "rollback" =>
              /\ SavesRight(pager, jrnl.vis, db.vis) /\ PagesOf(pager, db.vis) <= pager.dbSize /\ pager.dbSize > 0

WholeInv == Basics /\ Flow /\ OpenRight /\ ReaderRight /\ LockedRight /\ WriterRight

(***************************************************************************)
(* Writing a page.                                                         *)
(***************************************************************************)
Sizes == setting.maxVersion \in Nat /\ MaxPages \in Nat /\ MaxPages > 0

\* A page read through the cache is a page.
LEMMA GetTyped ==
    ASSUME Sizes, NEW cache, CacheType(cache), NEW f, DataFile(f), NEW size \in Nat, NEW p \in Nat, p > 0
    PROVE  Get(cache, f, size, p) \in Page
<1>1. Zero \in Page
  BY DEF Sizes, Zero, Page, MaxVersion
<1>2. p \in DOMAIN cache => cache[p].data \in Page
  BY DEF CacheType
<1>3. p <= Len(f) => f[p] \in Page
  BY DEF DataFile, Numbered
<1>4. QED
  BY <1>1, <1>2, <1>3 DEF Get

\* Page p is noted in the savepoints that it belonged to.
SavesMarked(saves, marked, p) ==
    /\ marked \in Seq(Save) /\ Len(marked) = Len(saves)
    /\ \A i \in 1 .. Len(saves) :
          /\ marked[i].nOrig = saves[i].nOrig /\ marked[i].iHdrOffset = saves[i].iHdrOffset
          /\ marked[i].iSubRec = saves[i].iSubRec /\ marked[i].iOffset = saves[i].iOffset
          /\ marked[i].inSavepoint = IF p <= saves[i].nOrig THEN saves[i].inSavepoint \cup {p}
                                     ELSE saves[i].inSavepoint

\* Marking a page in the savepoints changes nothing else of them.
LEMMA InSavepointsFacts ==
    ASSUME NEW saves \in Seq(Save), NEW p \in Nat
    PROVE  SavesMarked(saves, InSavepoints(saves, p), p)
<1> DEFINE s == InSavepoints(saves, p)
           one(i) == IF p <= saves[i].nOrig THEN [saves[i] EXCEPT !.inSavepoint = @ \cup {p}] ELSE saves[i]
<1>1. s = [i \in 1 .. Len(saves) |-> one(i)]
  BY DEF InSavepoints
<1>2. ASSUME NEW i \in 1 .. Len(saves)
      PROVE  /\ one(i) \in Save
             /\ one(i).nOrig = saves[i].nOrig /\ one(i).iHdrOffset = saves[i].iHdrOffset
             /\ one(i).iSubRec = saves[i].iSubRec /\ one(i).iOffset = saves[i].iOffset
             /\ one(i).inSavepoint = IF p <= saves[i].nOrig THEN saves[i].inSavepoint \cup {p}
                                     ELSE saves[i].inSavepoint
  <2>1. saves[i] \in Save
    OBVIOUS
  <2>2. saves[i].inSavepoint \cup {p} \in SUBSET Nat
    BY <2>1 DEF Save
  <2>3. QED
    BY <2>1, <2>2 DEF Save
<1> HIDE DEF s, one
<1>3. s \in [1 .. Len(saves) -> Save]
  BY <1>1, <1>2
<1>4. s \in Seq(Save) /\ Len(s) = Len(saves)
  BY <1>3
<1>5. \A i \in 1 .. Len(saves) : s[i] = one(i)
  BY <1>1
<1>6. QED
  BY <1>2, <1>4, <1>5 DEF s, SavesMarked

\* What a write of page p leaves of a pager g whose journal is open: w, with the journal K.
Kept3(g, w) ==
    /\ DOMAIN w = Fields
    /\ w.eState = g.eState /\ w.jfd = g.jfd /\ w.dbOrigSize = g.dbOrigSize /\ w.dbFileSize = g.dbFileSize
    /\ w.journalHdr = g.journalHdr /\ w.header = g.header /\ w.nonce = g.nonce
CacheSet(c, k, p, d, sync) ==
    /\ DOMAIN k = DOMAIN c \cup {p}
    /\ \A q \in DOMAIN c \cup {p} : k[q] = IF q = p THEN [data |-> d, dirty |-> TRUE, sync |-> sync] ELSE c[q]
NewRecord(g, J, w, K, p, old) ==
    /\ p \notin g.pInJournal /\ p <= g.dbOrigSize
    /\ w.journalOff = g.journalOff + 1 /\ w.nRec = g.nRec + 1 /\ w.pInJournal = g.pInJournal \cup {p}
    /\ K = Put(J, g.journalOff + 1, Record(p, old, g.nonce))
    /\ w.sub = g.sub /\ w.cache[p].sync = TRUE
NoRecord(g, J, w, K, p, old) ==
    /\ p \in g.pInJournal \/ p > g.dbOrigSize
    /\ w.journalOff = g.journalOff /\ w.nRec = g.nRec /\ w.pInJournal = g.pInJournal /\ K = J
    /\ p \in DOMAIN g.cache /\ g.cache[p].sync => w.cache[p].sync
    /\ \/ w.sub = g.sub /\ \A i \in 1 .. Len(g.aSavepoint) :
                              p <= g.aSavepoint[i].nOrig => p \in g.aSavepoint[i].inSavepoint
       \/ w.sub = Append(g.sub, [pgno |-> p, data |-> old])

\* Written does what Writes says.
LEMMA WrittenEffect ==
    ASSUME Sizes, NEW g, PagerType(g), NEW J, NEW p \in 1 .. MaxPages, NEW d, g.eState # "LOCKED"
    PROVE  LET s == Written([g |-> g, J |-> J], p, d)
               old == Get(g.cache, db.vis, g.dbSize, p)
           IN  /\ Kept3(g, s.g) /\ s.g.dbSize = Bigger(g.dbSize, p)
               /\ SavesMarked(g.aSavepoint, s.g.aSavepoint, p)
               /\ \E sync \in BOOLEAN : CacheSet(g.cache, s.g.cache, p, d, sync)
               /\ NewRecord(g, J, s.g, s.J, p, old) \/ NoRecord(g, J, s.g, s.J, p, old)
<1> DEFINE s == Written([g |-> g, J |-> J], p, d)
           old == Get(g.cache, db.vis, g.dbSize, p)
           j == Journalled(g, J, p, old)
           u == SubJournalled(j.g, p, old)
<1>1. s.g = [u EXCEPT !.cache = Cached(@, p, d, TRUE, j.sync), !.dbSize = Bigger(@, p)] /\ s.J = j.J
  BY DEF Written, JournalOpened
<1>2. DOMAIN g = Fields /\ g.aSavepoint \in Seq(Save)
      /\ CacheType(g.cache)
  BY DEF PagerType
<1>3. CASE p \notin g.pInJournal /\ p <= g.dbOrigSize
  <2> DEFINE k == [g EXCEPT !.journalOff = @ + 1, !.nRec = @ + 1, !.pInJournal = @ \cup {p},
                            !.aSavepoint = InSavepoints(@, p)]
  <2>1. j = [g |-> k, J |-> Put(J, g.journalOff + 1, Record(p, old, g.nonce)), sync |-> TRUE]
    <3>1. ~(p > g.dbOrigSize)
      BY <1>3 DEF PagerType
    <3>2. QED
      BY <1>3, <3>1 DEF Journalled
  <2>2. /\ DOMAIN k = Fields /\ k.cache = g.cache /\ k.sub = g.sub /\ k.dbSize = g.dbSize
        /\ k.eState = g.eState /\ k.jfd = g.jfd /\ k.dbOrigSize = g.dbOrigSize /\ k.dbFileSize = g.dbFileSize
        /\ k.journalHdr = g.journalHdr /\ k.header = g.header /\ k.nonce = g.nonce
        /\ k.journalOff = g.journalOff + 1 /\ k.nRec = g.nRec + 1 /\ k.pInJournal = g.pInJournal \cup {p}
        /\ k.aSavepoint = InSavepoints(g.aSavepoint, p)
    BY <1>2 DEF Fields
  <2> HIDE DEF k
  <2>3. SavesMarked(g.aSavepoint, k.aSavepoint, p)
    <3>1. p \in Nat
      BY DEF Sizes
    <3>2. SavesMarked(g.aSavepoint, InSavepoints(g.aSavepoint, p), p)
      BY <1>2, <3>1, InSavepointsFacts
    <3>3. QED
      BY <2>2, <3>2
  <2>4. ~subjRequiresPage(k, p)
    <3>1. DOMAIN k.aSavepoint = 1 .. Len(g.aSavepoint)
      BY <2>3 DEF SavesMarked
    <3>2. QED
      BY <2>3, <3>1 DEF subjRequiresPage, SavesMarked
  <2>5. u = k
    BY <2>1, <2>4 DEF SubJournalled
  <2>6. s.g = [k EXCEPT !.cache = Cached(g.cache, p, d, TRUE, TRUE), !.dbSize = Bigger(g.dbSize, p)]
        /\ s.J = Put(J, g.journalOff + 1, Record(p, old, g.nonce))
    <3>1. /\ j.g = k /\ j.J = Put(J, g.journalOff + 1, Record(p, old, g.nonce)) /\ j.sync = TRUE
      BY <2>1
    <3> HIDE DEF s, old, u, j
    <3>2. QED
      BY <1>1, <2>2, <2>5, <3>1
  <2> HIDE DEF s, old
  <2>7. /\ DOMAIN s.g = Fields /\ s.g.sub = k.sub
        /\ s.g.dbSize = Bigger(g.dbSize, p) /\ s.g.cache = Cached(g.cache, p, d, TRUE, TRUE)
        /\ s.g.eState = k.eState /\ s.g.jfd = k.jfd /\ s.g.dbOrigSize = k.dbOrigSize /\ s.g.dbFileSize = k.dbFileSize
        /\ s.g.journalHdr = k.journalHdr /\ s.g.header = k.header /\ s.g.nonce = k.nonce
        /\ s.g.journalOff = k.journalOff /\ s.g.nRec = k.nRec /\ s.g.pInJournal = k.pInJournal
        /\ s.g.aSavepoint = k.aSavepoint
    BY <2>2, <2>6 DEF Fields
  <2>8. CacheSet(g.cache, s.g.cache, p, d, TRUE)
    BY <2>7 DEF CacheSet, Cached
  <2>9. s.g.cache[p].sync = TRUE
    BY <2>8 DEF CacheSet
  <2>10. NewRecord(g, J, s.g, s.J, p, old)
    BY <1>3, <2>2, <2>6, <2>7, <2>9 DEF NewRecord
  <2>11. Kept3(g, s.g)
    BY <2>2, <2>7 DEF Kept3
  <2>12. QED
    BY <2>3, <2>7, <2>8, <2>10, <2>11 DEF s, old
<1>4. CASE p \in g.pInJournal \/ p > g.dbOrigSize
  <2>1. /\ j.g = g /\ j.J = J /\ j.sync \in BOOLEAN
        /\ p \in DOMAIN g.cache /\ g.cache[p].sync => j.sync
    <3>1. Flag(g.cache, p) \in BOOLEAN /\ (p \in DOMAIN g.cache /\ g.cache[p].sync => Flag(g.cache, p))
      BY <1>2 DEF Flag, CacheType
    <3>2. QED
      BY <1>4, <3>1 DEF Journalled
  <2>2. \/ /\ u = g
           /\ \A i \in 1 .. Len(g.aSavepoint) : p <= g.aSavepoint[i].nOrig => p \in g.aSavepoint[i].inSavepoint
        \/ u = [g EXCEPT !.sub = Append(@, [pgno |-> p, data |-> old]), !.aSavepoint = InSavepoints(@, p)]
    <3>1. DOMAIN g.aSavepoint = 1 .. Len(g.aSavepoint)
      BY <1>2
    <3>2. QED
      BY <2>1, <3>1 DEF SubJournalled, subjRequiresPage
  <2> DEFINE sync == j.sync
  <2>3. s.g = [u EXCEPT !.cache = Cached(u.cache, p, d, TRUE, sync), !.dbSize = Bigger(u.dbSize, p)] /\ s.J = J
    BY <1>1, <2>1
  <2>4. SavesMarked(g.aSavepoint, InSavepoints(g.aSavepoint, p), p)
    <3>1. p \in Nat
      BY DEF Sizes
    <3>2. QED
      BY <1>2, <3>1, InSavepointsFacts
  <2> HIDE DEF s, old, u, j, sync
  <2>5. /\ DOMAIN u = Fields /\ u.cache = g.cache /\ u.dbSize = g.dbSize
        /\ u.eState = g.eState /\ u.jfd = g.jfd /\ u.dbOrigSize = g.dbOrigSize /\ u.dbFileSize = g.dbFileSize
        /\ u.journalHdr = g.journalHdr /\ u.header = g.header /\ u.nonce = g.nonce
        /\ u.journalOff = g.journalOff /\ u.nRec = g.nRec /\ u.pInJournal = g.pInJournal
        /\ \/ /\ u.sub = g.sub /\ u.aSavepoint = g.aSavepoint
              /\ \A i \in 1 .. Len(g.aSavepoint) : p <= g.aSavepoint[i].nOrig => p \in g.aSavepoint[i].inSavepoint
           \/ u.sub = Append(g.sub, [pgno |-> p, data |-> old]) /\ u.aSavepoint = InSavepoints(g.aSavepoint, p)
    BY <1>2, <2>2 DEF Fields
  <2>6. SavesMarked(g.aSavepoint, u.aSavepoint, p)
    <3>1. CASE /\ u.aSavepoint = g.aSavepoint
               /\ \A i \in 1 .. Len(g.aSavepoint) :
                      p <= g.aSavepoint[i].nOrig => p \in g.aSavepoint[i].inSavepoint
      BY <1>2, <3>1 DEF SavesMarked
    <3>2. QED
      BY <2>4, <2>5, <3>1
  <2>7. /\ DOMAIN s.g = Fields /\ s.g.sub = u.sub
        /\ s.g.dbSize = Bigger(g.dbSize, p) /\ s.g.cache = Cached(g.cache, p, d, TRUE, sync)
        /\ s.g.eState = g.eState /\ s.g.jfd = g.jfd /\ s.g.dbOrigSize = g.dbOrigSize /\ s.g.dbFileSize = g.dbFileSize
        /\ s.g.journalHdr = g.journalHdr /\ s.g.header = g.header /\ s.g.nonce = g.nonce
        /\ s.g.journalOff = g.journalOff /\ s.g.nRec = g.nRec /\ s.g.pInJournal = g.pInJournal
        /\ s.g.aSavepoint = u.aSavepoint
    BY <2>3, <2>5 DEF Fields
  <2>8. CacheSet(g.cache, s.g.cache, p, d, sync)
    BY <2>7 DEF CacheSet, Cached
  <2>9. s.g.cache[p].sync = sync
    BY <2>8 DEF CacheSet
  <2>10. NoRecord(g, J, s.g, s.J, p, old)
    BY <1>4, <2>1, <2>3, <2>5, <2>7, <2>9 DEF NoRecord, sync
  <2>11. Kept3(g, s.g)
    BY <2>7 DEF Kept3
  <2>12. sync \in BOOLEAN
    BY <2>1 DEF sync
  <2>13. QED
    BY <2>6, <2>7, <2>8, <2>10, <2>11, <2>12 DEF s, old
<1>5. QED
  <2>1. p > g.dbOrigSize \/ p <= g.dbOrigSize
    BY DEF PagerType
  <2>2. QED
    BY <1>3, <1>4, <2>1

\* Where the journal of a ready pager ends.
LEMMA ReadyEnd ==
    ASSUME NEW g, NEW J, NEW f, NEW safe, NEW v, Ready(g, J, f, safe, v)
    PROVE  /\ g.journalHdr \in Nat /\ g.nRec \in Nat /\ g.header = g.journalHdr + 1
           /\ LastOf(g) = g.journalHdr + 1 + g.nRec /\ LastOf(g) \in Nat /\ g.journalOff = LastOf(g)
           /\ Len(J) \in Nat /\ LastOf(g) <= Len(J) /\ Numbered(J)
           /\ InProgressRight(g, J)
  BY DEF Ready, PagerType, Layout, LastOf, JournalFile, Numbered

\* A record more.
LEMMA RecordAdded ==
    ASSUME NEW g, NEW J, NEW f, NEW safe, NEW v \in Nat, Ready(g, J, f, safe, v),
           NEW w, NEW K, Kept3(g, w), NEW p \in 1 .. MaxPages, NEW old \in Page,
           NewRecord(g, J, w, K, p, old)
    PROVE  /\ LastOf(w) = LastOf(g) + 1 /\ w.journalOff = LastOf(w)
           /\ LastOf(w) <= Len(K) /\ Len(J) <= Len(K) /\ K[LastOf(w)] = Record(p, old, g.nonce)
           /\ \A i \in 1 .. Len(J) : i # LastOf(w) => K[i] = J[i]
           /\ JournalFile(K, v)
           /\ Records(w, K) = Records(g, J) \cup {LastOf(w)}
           /\ \A b \in Records(g, J) : K[b] = J[b]
<1> DEFINE last == LastOf(g)
           r == Record(p, old, g.nonce)
<1>1. /\ g.journalHdr \in Nat /\ g.nRec \in Nat /\ g.header = g.journalHdr + 1 /\ g.header # 0
      /\ last = g.journalHdr + 1 + g.nRec /\ last \in Nat /\ g.journalOff = last /\ Len(J) \in Nat
      /\ last <= Len(J) /\ Numbered(J)
  BY ReadyEnd
<1>2. w.nRec = g.nRec + 1 /\ w.header = g.header /\ w.journalHdr = g.journalHdr /\ w.journalOff = last + 1
      /\ K = Put(J, last + 1, r)
  BY <1>1 DEF NewRecord, Kept3
<1>3. LastOf(w) = last + 1
  BY <1>1, <1>2 DEF LastOf
<1>4. /\ Numbered(K) /\ Len(K) = (IF last + 1 > Len(J) THEN last + 1 ELSE Len(J))
      /\ K[last + 1] = r /\ \A k \in 1 .. Len(J) : k # last + 1 => K[k] = J[k]
  <2> HIDE DEF last, r
  <2>1. last + 1 \in Nat /\ last + 1 > 0 /\ last + 1 <= Len(J) + 1
    BY <1>1
  <2>2. QED
    BY <1>1, <1>2, <2>1, PutBlock
<1>5. r.kind = "rec" /\ IsBlock(r, v)
  BY DEF Record, IsBlock, Ready, PagerType
<1> HIDE DEF last, r
<1>6. JournalFile(K, v)
  <2>1. \A i \in 1 .. Len(K) : i = last + 1 \/ (i \in 1 .. Len(J) /\ K[i] = J[i])
    BY <1>1, <1>4
  <2>2. \A i \in 1 .. Len(J) : IsBlock(J[i], v)
    BY DEF Ready, JournalFile
  <2>3. \A i \in 1 .. Len(K) : IsBlock(K[i], v)
    BY <1>4, <1>5, <2>1, <2>2
  <2>4. QED
    BY <1>4, <2>3 DEF JournalFile
<1>7. \A i \in 1 .. last : K[i] = J[i]
  BY <1>1, <1>4
<1>8. Records(w, K) = Records(g, J) \cup {last + 1}
  <2>1. Records(w, K) = {k \in 1 .. last + 1 : K[k].kind = "rec"}
    BY <1>3 DEF Records, RecordsIn
  <2>2. Records(g, J) = {k \in 1 .. last : J[k].kind = "rec"}
    BY DEF Records, RecordsIn, last
  <2>3. QED
    BY <1>1, <1>4, <1>5, <1>7, <2>1, <2>2
<1>9. \A b \in Records(g, J) : K[b] = J[b]
  BY <1>7 DEF Records, RecordsIn, last
<1>10. QED
  BY <1>1, <1>2, <1>3, <1>4, <1>6, <1>8, <1>9 DEF last, r

\* The layout of a journal depends on its blocks up to the end of the records.
LEMMA LayoutGrown ==
    ASSUME NEW g, NEW J, NEW f, NEW safe, NEW v \in Nat, Ready(g, J, f, safe, v),
           NEW w, NEW K, Kept3(g, w), NEW p \in 1 .. MaxPages, NEW old \in Page,
           NewRecord(g, J, w, K, p, old)
    PROVE  /\ Layout(w, K) /\ SyncedRight(w, K, safe)
           /\ ~K[w.journalHdr + 1].magic /\ K[w.journalHdr + 1].n = 0
<1> DEFINE last == LastOf(g)
           h == g.journalHdr
<1>1. /\ h \in Nat /\ g.nRec \in Nat /\ g.header = h + 1
      /\ last = h + 1 + g.nRec /\ last \in Nat /\ g.journalOff = last /\ Len(J) \in Nat
      /\ last <= Len(J) /\ InProgressRight(g, J)
  BY ReadyEnd
<1>2. /\ LastOf(w) = last + 1 /\ w.journalOff = last + 1
      /\ last + 1 <= Len(K) /\ Len(J) <= Len(K) /\ K[last + 1] = Record(p, old, g.nonce)
      /\ \A i \in 1 .. Len(J) : i # last + 1 => K[i] = J[i]
      /\ JournalFile(K, v)
  <2>1. /\ LastOf(w) = LastOf(g) + 1 /\ w.journalOff = LastOf(w)
        /\ LastOf(w) <= Len(K) /\ Len(J) <= Len(K) /\ K[LastOf(w)] = Record(p, old, g.nonce)
        /\ \A i \in 1 .. Len(J) : i # LastOf(w) => K[i] = J[i]
        /\ JournalFile(K, v)
    BY RecordAdded
  <2>2. QED
    BY <2>1
<1>3. w.header = h + 1 /\ w.journalHdr = h /\ w.nonce = g.nonce /\ w.dbOrigSize = g.dbOrigSize
      /\ w.eState = g.eState /\ w.jfd = g.jfd
  BY <1>1 DEF Kept3
<1>4. Layout(g, J) /\ SyncedRight(g, J, safe) /\ ~J[h + 1].magic /\ J[h + 1].n = 0
  BY DEF Ready
<1> HIDE DEF last, h
<1>5. \A i \in 1 .. last : K[i] = J[i]
  BY <1>1, <1>2
<1>6. Segments(K, h, g.dbOrigSize)
  <2>1. Segments(J, h, g.dbOrigSize)
    BY <1>4 DEF Layout, h
  <2>2. ASSUME NEW i \in 1 .. h, IsSegment(J, i, h, g.dbOrigSize) PROVE IsSegment(K, i, h, g.dbOrigSize)
    <3>1. i \in 1 .. last /\ K[i] = J[i] /\ J[i].kind = "hdr"
      BY <1>1, <1>5, <2>2 DEF IsSegment
    <3>2. J[i].n \in Nat
      <4>1. IsBlock(J[i], v)
        BY <1>1, <3>1 DEF Ready, JournalFile
      <4>2. QED
        BY <3>1, <4>1 DEF IsBlock
    <3>3. \A m \in i + 1 .. i + J[i].n : m \in 1 .. last
      BY <1>1, <2>2, <3>1, <3>2 DEF IsSegment
    <3>4. i + J[i].n = h \/ i + J[i].n + 1 \in 1 .. last
      BY <1>1, <2>2, <3>1, <3>2 DEF IsSegment
    <3>5. QED
      BY <1>5, <2>2, <3>1, <3>3, <3>4 DEF IsSegment
  <2>3. QED
    BY <1>1, <1>5, <2>1, <2>2 DEF Segments
<1>7. InProgressRight(w, K)
  <2>1. h + 1 \in 1 .. last /\ K[h + 1] = J[h + 1]
    BY <1>1, <1>5
  <2>2. /\ J[h + 1].kind = "hdr" /\ J[h + 1].orig = g.dbOrigSize /\ J[h + 1].nonce = g.nonce
        /\ \A m \in h + 1 + 1 .. last : J[m].kind = "rec" /\ J[m].nonce = g.nonce
        /\ \A m \in last + 1 .. Len(J) : ~Good(J, m, g.nonce)
    BY <1>1 DEF InProgressRight, h, last
  <2>3. \A m \in h + 1 + 1 .. last + 1 : K[m].kind = "rec" /\ K[m].nonce = g.nonce
    <3>1. K[last + 1].kind = "rec" /\ K[last + 1].nonce = g.nonce
      BY <1>2 DEF Record
    <3>2. \A m \in h + 1 + 1 .. last + 1 : m = last + 1 \/ (m \in h + 1 + 1 .. last /\ K[m] = J[m])
      BY <1>1, <1>5
    <3>3. QED
      BY <2>2, <3>1, <3>2
  <2>4. \A m \in last + 1 + 1 .. Len(K) : m \in 1 .. Len(J) /\ m # last + 1
    <3>1. Len(K) = (IF last + 1 > Len(J) THEN last + 1 ELSE Len(J))
      <4>1. K = Put(J, last + 1, Record(p, old, g.nonce)) /\ Numbered(J)
        BY <1>1, ReadyEnd DEF NewRecord
      <4>2. last + 1 \in Nat /\ last + 1 > 0 /\ last + 1 <= Len(J) + 1
        BY <1>1
      <4>3. QED
        BY <4>1, <4>2, PutBlock
    <3>2. QED
      BY <1>1, <3>1
  <2>5. \A m \in last + 1 + 1 .. Len(K) : ~Good(K, m, g.nonce)
    <3>1. \A m \in last + 1 + 1 .. Len(K) : K[m] = J[m] /\ m \in last + 1 .. Len(J)
      BY <1>1, <1>2, <2>4
    <3>2. QED
      BY <2>2, <3>1 DEF Good
  <2>6. QED
    BY <1>2, <1>3, <2>1, <2>2, <2>3, <2>5 DEF InProgressRight
<1>8. 1 \in 1 .. last /\ K[1] = J[1] /\ h + 1 \in 1 .. last
  BY <1>1, <1>5
<1>9. Layout(w, K)
  BY <1>1, <1>2, <1>3, <1>4, <1>6, <1>7, <1>8 DEF Layout, h
<1>10. SyncedRight(w, K, safe)
  <2>1. \A i \in 1 .. h : K[i] = J[i]
    BY <1>1, <1>5
  <2>2. QED
    BY <1>3, <1>4, <2>1 DEF SyncedRight, h
<1>11. QED
  BY <1>3, <1>4, <1>5, <1>8, <1>9, <1>10

\* The bigger of two numbers.
LEMMA BiggerFacts == \A a, b \in Nat : Bigger(a, b) \in Nat /\ a <= Bigger(a, b) /\ b <= Bigger(a, b) /\ Bigger(a, b) \in {a, b}
  BY DEF Bigger

\* The records after a write of page p whose old content is x.
LEMMA RecordsAfter ==
    ASSUME NEW g, NEW J, NEW f, NEW safe, NEW v \in Nat, Ready(g, J, f, safe, v),
           NEW w, NEW K, Kept3(g, w), NEW p \in 1 .. MaxPages, NEW x \in Page,
           NewRecord(g, J, w, K, p, x) \/ NoRecord(g, J, w, K, p, x)
    PROVE  /\ LastOf(g) <= LastOf(w) /\ LastOf(w) \in Nat
           /\ \A b \in Records(g, J) : b \in Records(w, K) /\ K[b] = J[b] /\ b <= LastOf(g)
           /\ \A b \in Records(w, K) :
                 \/ b \in Records(g, J)
                 \/ NewRecord(g, J, w, K, p, x) /\ b = LastOf(g) + 1 /\ K[b].pgno = p /\ K[b].data = x
           /\ NewRecord(g, J, w, K, p, x) => LastOf(g) + 1 \in Records(w, K) /\ K[LastOf(g) + 1] = Record(p, x, g.nonce)
<1>1. LastOf(g) \in Nat
  BY ReadyEnd
<1>2. \A b \in Records(g, J) : b <= LastOf(g)
  BY DEF Records, RecordsIn
<1>3. CASE NewRecord(g, J, w, K, p, x)
  <2>1. /\ LastOf(w) = LastOf(g) + 1 /\ K[LastOf(w)] = Record(p, x, g.nonce)
        /\ Records(w, K) = Records(g, J) \cup {LastOf(w)}
        /\ \A b \in Records(g, J) : K[b] = J[b]
    BY <1>3, RecordAdded
  <2>2. Record(p, x, g.nonce).pgno = p /\ Record(p, x, g.nonce).data = x
    BY DEF Record
  <2>3. QED
    BY <1>1, <1>2, <1>3, <2>1, <2>2
<1>4. CASE NoRecord(g, J, w, K, p, x) /\ ~NewRecord(g, J, w, K, p, x)
  <2>1. LastOf(w) = LastOf(g) /\ K = J
    BY <1>4 DEF NoRecord, Kept3, LastOf
  <2>2. Records(w, K) = Records(g, J)
    BY <2>1 DEF Records
  <2>3. QED
    BY <1>1, <1>2, <1>4, <2>1, <2>2
<1>5. QED
  BY <1>3, <1>4

\* What a write of page p with d makes of a ready pager g: w, with the journal K.
Writes(g, J, f, w, K, p, d) ==
    /\ Kept3(g, w) /\ w.dbSize = Bigger(g.dbSize, p)
    /\ SavesMarked(g.aSavepoint, w.aSavepoint, p)
    /\ \E sync \in BOOLEAN : CacheSet(g.cache, w.cache, p, d, sync)
    /\ \/ NewRecord(g, J, w, K, p, Get(g.cache, f, g.dbSize, p))
       \/ NoRecord(g, J, w, K, p, Get(g.cache, f, g.dbSize, p))

\* A write changes the size on page 1 only when it is to page 1.
LEMMA WritesPages ==
    ASSUME NEW g, NEW J, NEW f, NEW w, NEW K, NEW p \in 1 .. MaxPages, NEW d, Writes(g, J, f, w, K, p, d),
           MaxPages \in Nat, g.dbSize \in Nat, p <= g.dbSize + 1
    PROVE  PagesOf(w, f) = IF p = 1 THEN d.n ELSE PagesOf(g, f)
<1>1. DOMAIN w.cache = DOMAIN g.cache \cup {p}
  BY DEF Writes, CacheSet
<1>2. CASE p = 1
  <2>1. w.cache[1].data = d
    BY <1>1, <1>2 DEF Writes, CacheSet
  <2>2. QED
    BY <1>1, <1>2, <2>1 DEF PagesOf, Get
<1>3. CASE p # 1
  <2>1. 1 \in DOMAIN g.cache => w.cache[1] = g.cache[1]
    BY <1>1, <1>3 DEF Writes, CacheSet
  <2>2. 1 <= g.dbSize /\ 1 <= w.dbSize
    <3>1. w.dbSize = Bigger(g.dbSize, p) /\ p \in Nat
      BY DEF Writes
    <3>2. g.dbSize <= Bigger(g.dbSize, p) /\ Bigger(g.dbSize, p) \in Nat
      BY <3>1, BiggerFacts
    <3>3. 1 <= g.dbSize
      BY <1>3, <3>1
    <3>4. QED
      BY <3>1, <3>2, <3>3
  <2>3. QED
    BY <1>1, <1>3, <2>1, <2>2 DEF PagesOf, Get
<1>4. QED
  BY <1>2, <1>3

\* A write leaves a pager and a journal,
LEMMA WritesType ==
    ASSUME Sizes, NEW g, NEW J, NEW f, NEW safe, NEW v \in Nat, Ready(g, J, f, safe, v),
           NEW w, NEW K, NEW p \in 1 .. MaxPages, NEW d \in Page, Writes(g, J, f, w, K, p, d)
    PROVE  PagerType(w) /\ JournalFile(K, v) /\ w.nonce < v /\ w.dbSize > 0
<1> DEFINE x == Get(g.cache, f, g.dbSize, p)
<1>1. x \in Page
  BY GetTyped DEF Ready, PagerType, Sizes
<1>2. PagerType(g) /\ g.nonce < v /\ p \in Nat /\ JournalFile(J, v)
  BY DEF Ready, Sizes
<1>3. /\ Kept3(g, w) /\ w.dbSize = Bigger(g.dbSize, p)
      /\ SavesMarked(g.aSavepoint, w.aSavepoint, p)
      /\ NewRecord(g, J, w, K, p, x) \/ NoRecord(g, J, w, K, p, x)
  BY DEF Writes
<1> HIDE DEF x
<1>4. CacheType(w.cache)
  <2>1. PICK sync \in BOOLEAN : CacheSet(g.cache, w.cache, p, d, sync)
    BY DEF Writes
  <2>2. [data |-> d, dirty |-> TRUE, sync |-> sync] \in [data : Page, dirty : BOOLEAN, sync : BOOLEAN]
    OBVIOUS
  <2>3. QED
    BY <1>2, <2>1, <2>2 DEF PagerType, CacheType, CacheSet
<1>5. JournalFile(K, v)
  <2>1. CASE NewRecord(g, J, w, K, p, x)
    BY <1>1, <1>3, <2>1, RecordAdded
  <2>2. CASE NoRecord(g, J, w, K, p, x)
    BY <1>2, <2>2 DEF NoRecord
  <2>3. QED
    BY <1>3, <2>1, <2>2
<1>6. w.sub \in Seq(Entry) /\ Len(g.sub) <= Len(w.sub)
  <2>1. g.sub \in Seq(Entry)
    BY <1>2 DEF PagerType
  <2>2. [pgno |-> p, data |-> x] \in Entry
    BY <1>1 DEF Entry
  <2>3. w.sub = g.sub \/ w.sub = Append(g.sub, [pgno |-> p, data |-> x])
    BY <1>3 DEF NewRecord, NoRecord
  <2>4. QED
    BY <2>1, <2>2, <2>3
<1>7. w.pInJournal \subseteq 1 .. w.dbOrigSize /\ w.nRec \in Nat /\ w.journalOff \in Nat
  BY <1>2, <1>3 DEF NewRecord, NoRecord, PagerType, Kept3
<1>8. w.dbSize \in 0 .. MaxPages /\ w.dbSize > 0
  <2>1. g.dbSize \in Nat /\ g.dbSize <= MaxPages /\ p \in Nat /\ p > 0 /\ p <= MaxPages
    BY <1>2 DEF PagerType, Sizes
  <2>2. Bigger(g.dbSize, p) \in Nat /\ p <= Bigger(g.dbSize, p) /\ Bigger(g.dbSize, p) \in {g.dbSize, p}
    BY <2>1, BiggerFacts
  <2>3. QED
    BY <1>3, <2>1, <2>2 DEF Sizes
<1>9. w.aSavepoint \in Seq(Save) /\ \A i \in 1 .. Len(w.aSavepoint) : w.aSavepoint[i].iSubRec <= Len(w.sub)
  <2>1. \A i \in 1 .. Len(g.aSavepoint) : g.aSavepoint[i].iSubRec <= Len(g.sub) /\ g.aSavepoint[i].iSubRec \in Nat
    <3>1. g.aSavepoint \in Seq(Save) /\ \A i \in 1 .. Len(g.aSavepoint) : g.aSavepoint[i].iSubRec <= Len(g.sub)
      BY <1>2 DEF PagerType
    <3>2. \A i \in 1 .. Len(g.aSavepoint) : g.aSavepoint[i] \in Save
      BY <3>1
    <3>3. \A s \in Save : s.iSubRec \in Nat
      BY DEF Save
    <3>4. QED
      BY <3>1, <3>2, <3>3
  <2>2. Len(g.sub) \in Nat /\ Len(w.sub) \in Nat
    BY <1>2, <1>6 DEF PagerType
  <2>3. /\ w.aSavepoint \in Seq(Save) /\ Len(w.aSavepoint) = Len(g.aSavepoint)
        /\ \A i \in 1 .. Len(g.aSavepoint) : w.aSavepoint[i].iSubRec = g.aSavepoint[i].iSubRec
    BY <1>3 DEF SavesMarked
  <2>4. \A i \in 1 .. Len(g.aSavepoint) : w.aSavepoint[i].iSubRec <= Len(w.sub)
    <3>1. Len(g.sub) <= Len(w.sub)
      BY <1>6
    <3>2. \A k \in Nat : k <= Len(g.sub) => k <= Len(w.sub)
      BY <2>2, <3>1
    <3>3. QED
      BY <2>1, <2>3, <3>2
  <2>5. QED
    BY <2>3, <2>4
<1>10. PagerType(w)
  BY <1>2, <1>3, <1>4, <1>6, <1>7, <1>8, <1>9 DEF PagerType, Kept3
<1>11. QED
  BY <1>2, <1>3, <1>5, <1>8, <1>10 DEF Kept3

\* whose journal has one record for each page journalled,
LEMMA WritesJournal ==
    ASSUME Sizes, NEW g, NEW J, NEW f, NEW safe, NEW v \in Nat, Ready(g, J, f, safe, v),
           NEW w, NEW K, NEW p \in 1 .. MaxPages, NEW d \in Page, Writes(g, J, f, w, K, p, d)
    PROVE  /\ Layout(w, K) /\ SyncedRight(w, K, safe) /\ RecordsRight(w, K)
           /\ ~K[w.journalHdr + 1].magic /\ K[w.journalHdr + 1].n = 0
           /\ w.journalOff = LastOf(w)
<1> DEFINE x == Get(g.cache, f, g.dbSize, p)
<1>1. x \in Page
  BY GetTyped DEF Ready, PagerType, Sizes
<1>2. Kept3(g, w) /\ (NewRecord(g, J, w, K, p, x) \/ NoRecord(g, J, w, K, p, x))
  BY DEF Writes
<1>3. p = 1 => x.n = PagesOf(g, f)
  BY DEF PagesOf
<1> HIDE DEF x
<1>4. /\ Layout(w, K) /\ SyncedRight(w, K, safe)
      /\ ~K[w.journalHdr + 1].magic /\ K[w.journalHdr + 1].n = 0
      /\ w.journalOff = LastOf(w)
  <2>1. CASE NewRecord(g, J, w, K, p, x)
    BY <1>1, <1>2, <2>1, LayoutGrown, RecordAdded
  <2>2. CASE NoRecord(g, J, w, K, p, x)
    <3>1. LastOf(w) = LastOf(g) /\ K = J
      BY <1>2, <2>2 DEF NoRecord, Kept3, LastOf
    <3>2. Layout(g, J) /\ SyncedRight(g, J, safe) /\ ~J[g.journalHdr + 1].magic /\ J[g.journalHdr + 1].n = 0
          /\ g.journalOff = LastOf(g)
      BY DEF Ready
    <3>3. w.journalOff = g.journalOff /\ w.nRec = g.nRec
      BY <2>2 DEF NoRecord
    <3>4. InProgressRight(g, J) => InProgressRight(w, K)
      BY <1>2, <3>1 DEF InProgressRight, Kept3
    <3>5. QED
      BY <1>2, <3>1, <3>2, <3>3, <3>4 DEF Layout, SyncedRight, Kept3
  <2>3. QED
    BY <1>2, <2>1, <2>2
<1>5. /\ \A b \in Records(g, J) : b \in Records(w, K) /\ K[b] = J[b]
      /\ \A b \in Records(w, K) :
            \/ b \in Records(g, J)
            \/ NewRecord(g, J, w, K, p, x) /\ b = LastOf(g) + 1 /\ K[b].pgno = p /\ K[b].data = x
      /\ NewRecord(g, J, w, K, p, x) => LastOf(g) + 1 \in Records(w, K) /\ K[LastOf(g) + 1] = Record(p, x, g.nonce)
  BY <1>1, <1>2, RecordsAfter
<1>6. RecordsRight(g, J) /\ w.dbOrigSize = g.dbOrigSize
  BY <1>2 DEF Ready, Kept3
<1>7. /\ NewRecord(g, J, w, K, p, x) => p \notin g.pInJournal /\ w.pInJournal = g.pInJournal \cup {p}
      /\ ~NewRecord(g, J, w, K, p, x) => w.pInJournal = g.pInJournal
  BY <1>2 DEF NewRecord, NoRecord
<1>8. NewRecord(g, J, w, K, p, x) /\ p = 1 => x.n <= g.dbOrigSize
  <2>1. ASSUME NewRecord(g, J, w, K, p, x), p = 1 PROVE x.n <= g.dbOrigSize
    <3>1. 1 \notin g.pInJournal /\ g.dbOrigSize > 0
      BY <2>1 DEF NewRecord, Ready, PagerType
    <3>2. PagesOf(g, f) <= g.dbOrigSize
      BY <3>1 DEF Ready, SavesRight
    <3>3. QED
      BY <1>3, <2>1, <3>2
  <2>2. QED
    BY <2>1
<1>9. \A a, b \in Records(w, K) : K[a].pgno = K[b].pgno => a = b
  BY <1>5, <1>6, <1>7 DEF RecordsRight
<1>10. \A b \in Records(w, K) : K[b].pgno \in w.pInJournal
  BY <1>5, <1>6, <1>7 DEF RecordsRight
<1>11. \A q \in w.pInJournal : \E b \in Records(w, K) : K[b].pgno = q
  <2> SUFFICES ASSUME NEW q \in w.pInJournal PROVE \E b \in Records(w, K) : K[b].pgno = q
    OBVIOUS
  <2>1. CASE q \in g.pInJournal
    BY <1>5, <1>6, <2>1 DEF RecordsRight
  <2>2. CASE q \notin g.pInJournal
    BY <1>5, <1>7, <2>2 DEF Record
  <2>3. QED
    BY <2>1, <2>2
<1>12. \A b \in Records(w, K) : K[b].pgno = 1 => K[b].data.n <= w.dbOrigSize
  BY <1>5, <1>6, <1>8 DEF RecordsRight
<1>13. RecordsRight(w, K)
  BY <1>9, <1>10, <1>11, <1>12 DEF RecordsRight
<1>14. QED
  BY <1>4, <1>13

\* whose cache holds what is not in the file,
LEMMA WritesCache ==
    ASSUME Sizes, NEW g, NEW J, NEW f, NEW safe, NEW v \in Nat, Ready(g, J, f, safe, v),
           NEW w, NEW K, NEW p \in 1 .. MaxPages, NEW d \in Page, Writes(g, J, f, w, K, p, d), p <= g.dbSize + 1
    PROVE  CacheRight(w, K, f) /\ (OwnRecords => ContentRight(w, K, f))
<1> DEFINE x == Get(g.cache, f, g.dbSize, p)
<1>1. x \in Page
  BY GetTyped DEF Ready, PagerType, Sizes
<1>2. Kept3(g, w) /\ (NewRecord(g, J, w, K, p, x) \/ NoRecord(g, J, w, K, p, x)) /\ w.dbSize = Bigger(g.dbSize, p)
  BY DEF Writes
<1>3. PICK sync \in BOOLEAN : CacheSet(g.cache, w.cache, p, d, sync)
  BY DEF Writes
<1>4. /\ DOMAIN w.cache = DOMAIN g.cache \cup {p}
      /\ w.cache[p].dirty = TRUE
      /\ \A q \in DOMAIN g.cache : q # p => w.cache[q] = g.cache[q]
  BY <1>3 DEF CacheSet
<1>5. /\ \A b \in Records(w, K) :
            \/ b \in Records(g, J) /\ K[b] = J[b]
            \/ NewRecord(g, J, w, K, p, x) /\ b = LastOf(g) + 1 /\ K[b].pgno = p /\ K[b].data = x
  BY <1>1, <1>2, RecordsAfter
<1>6. /\ NewRecord(g, J, w, K, p, x) => p \notin g.pInJournal /\ w.pInJournal = g.pInJournal \cup {p}
                                          /\ w.cache[p].sync = TRUE /\ p <= g.dbOrigSize
      /\ ~NewRecord(g, J, w, K, p, x) => /\ w.pInJournal = g.pInJournal /\ (p \in g.pInJournal \/ p > g.dbOrigSize)
                                          /\ (p \in DOMAIN g.cache /\ g.cache[p].sync => w.cache[p].sync)
  BY <1>2 DEF NewRecord, NoRecord
<1>7. CacheRight(g, J, f) /\ RecordsRight(g, J) /\ (OwnRecords => ContentRight(g, J, f))
  BY DEF Ready
<1>8. /\ g.dbSize \in Nat /\ w.dbSize \in Nat /\ p \in Nat /\ g.dbSize <= w.dbSize /\ w.dbSize \in {g.dbSize, p}
      /\ w.dbOrigSize = g.dbOrigSize /\ g.dbOrigSize \in Nat /\ w.dbFileSize = g.dbFileSize /\ w.eState = g.eState
      /\ w.journalHdr = g.journalHdr /\ Len(f) \in Nat
  BY <1>2, BiggerFacts DEF Ready, PagerType, Kept3, Sizes, DataFile, Numbered
<1>9. DOMAIN g.cache \subseteq 1 .. MaxPages
  BY DEF Ready, PagerType, CacheType
<1>10. CacheRight(w, K, f)
  <2>1. w.pInJournal \subseteq DOMAIN w.cache
    BY <1>4, <1>6, <1>7 DEF CacheRight
  <2>2. w.dbOrigSize <= w.dbSize
    BY <1>7, <1>8 DEF CacheRight
  <2>3. \A q \in w.dbOrigSize + 1 .. w.dbSize : q \in DOMAIN w.cache
    <3>1. \A q \in w.dbOrigSize + 1 .. w.dbSize : q = p \/ q \in g.dbOrigSize + 1 .. g.dbSize
      BY <1>8
    <3>2. QED
      BY <1>4, <1>7, <3>1 DEF CacheRight
  <2>4. w.dbFileSize = Len(f) /\ w.dbOrigSize <= Len(f)
    BY <1>7, <1>8 DEF CacheRight
  <2>5. w.eState = "CACHEMOD" =>
            /\ Len(f) = w.dbOrigSize
            /\ \A q \in DOMAIN w.cache : q \in w.pInJournal \/ q > w.dbOrigSize => w.cache[q].dirty
    BY <1>4, <1>6, <1>7, <1>8 DEF CacheRight
  <2>6. \A b \in Records(w, K) : b > w.journalHdr => w.cache[K[b].pgno].sync
    <3> SUFFICES ASSUME NEW b \in Records(w, K), b > w.journalHdr PROVE w.cache[K[b].pgno].sync
      OBVIOUS
    <3>1. CASE b \in Records(g, J) /\ K[b] = J[b]
      <4>1. J[b].pgno \in g.pInJournal /\ J[b].pgno \in DOMAIN g.cache /\ g.cache[J[b].pgno].sync
        BY <1>7, <1>8, <3>1 DEF CacheRight, RecordsRight
      <4>2. QED
        BY <1>4, <1>6, <3>1, <4>1
    <3>2. CASE NewRecord(g, J, w, K, p, x) /\ K[b].pgno = p
      BY <1>6, <3>2
    <3>3. QED
      BY <1>5, <3>1, <3>2
  <2>7. \A q \in DOMAIN w.cache : ~w.cache[q].dirty /\ q <= w.dbSize => q <= Len(f)
    <3>1. \A q \in DOMAIN w.cache : ~w.cache[q].dirty => q \in DOMAIN g.cache /\ q # p /\ w.cache[q] = g.cache[q]
      BY <1>4
    <3>2. \A q \in DOMAIN g.cache : q # p /\ q <= w.dbSize => q <= g.dbSize
      BY <1>8, <1>9
    <3>3. QED
      BY <1>7, <3>1, <3>2 DEF CacheRight
  <2>8. QED
    BY <2>1, <2>2, <2>3, <2>4, <2>5, <2>6, <2>7 DEF CacheRight
<1>11. ASSUME OwnRecords PROVE ContentRight(w, K, f)
  <2>0. ContentRight(g, J, f)
    BY <1>7, <1>11
  <2>1. NewRecord(g, J, w, K, p, x) => x = f[p]
    <3> SUFFICES ASSUME NewRecord(g, J, w, K, p, x) PROVE x = f[p]
      OBVIOUS
    <3>1. p <= g.dbOrigSize /\ p \notin g.pInJournal /\ p <= Len(f) /\ p <= g.dbSize
      BY <1>6, <1>7, <1>8 DEF CacheRight
    <3>2. QED
      BY <2>0, <3>1 DEF Get, ContentRight
  <2> HIDE DEF x
  <2>2. \A b \in Records(w, K) : b > w.journalHdr => K[b].data = f[K[b].pgno]
    BY <1>5, <1>8, <2>0, <2>1 DEF ContentRight
  <2>3. \A q \in DOMAIN w.cache : q <= w.dbOrigSize /\ q \notin w.pInJournal => w.cache[q].data = f[q]
    <3>1. \A q \in DOMAIN w.cache : q <= w.dbOrigSize /\ q \notin w.pInJournal =>
              q \in DOMAIN g.cache /\ q # p /\ q \notin g.pInJournal
      BY <1>4, <1>6, <1>8
    <3>2. QED
      BY <1>4, <1>8, <2>0, <3>1 DEF ContentRight
  <2>4. \A q \in DOMAIN w.cache : ~w.cache[q].dirty /\ q <= w.dbSize => w.cache[q].data = f[q]
    <3>1. \A q \in DOMAIN w.cache : ~w.cache[q].dirty => q \in DOMAIN g.cache /\ q # p /\ w.cache[q] = g.cache[q]
      BY <1>4
    <3>2. \A q \in DOMAIN g.cache : q # p /\ q <= w.dbSize => q <= g.dbSize
      BY <1>8, <1>9
    <3>3. QED
      BY <2>0, <3>1, <3>2 DEF ContentRight
  <2>5. QED
    BY <2>2, <2>3, <2>4 DEF ContentRight
<1>12. QED
  BY <1>10, <1>11

\* After a write, a roll back to a savepoint still gives page 1 an old size.
LEMMA FirstOneWritten ==
    ASSUME Sizes, NEW g, NEW J, NEW f, NEW safe, NEW v \in Nat, Ready(g, J, f, safe, v),
           NEW w, NEW K, NEW p \in 1 .. MaxPages, NEW d \in Page, Writes(g, J, f, w, K, p, d), p <= g.dbSize + 1,
           NEW i \in 1 .. Len(g.aSavepoint)
    PROVE  FirstOne(w, K, f, w.aSavepoint[i])
<1> DEFINE x == Get(g.cache, f, g.dbSize, p)
           sp == g.aSavepoint[i]
           sq == w.aSavepoint[i]
<1>1. x \in Page
  BY GetTyped DEF Ready, PagerType, Sizes
<1>2. Kept3(g, w) /\ SavesMarked(g.aSavepoint, w.aSavepoint, p)
  BY DEF Writes
<1>3. p = 1 => x.n = PagesOf(g, f)
  BY DEF PagesOf
<1>4. /\ sq.nOrig = sp.nOrig /\ sq.iSubRec = sp.iSubRec /\ sq.iOffset = sp.iOffset
      /\ p # 1 => (1 \in sq.inSavepoint <=> 1 \in sp.inSavepoint)
  BY <1>2 DEF SavesMarked
<1>5. SaveRight(g, J, f, sp) /\ SavesRight(g, J, f)
  BY DEF Ready, SavesRight
<1>6. /\ sp.nOrig \in Nat /\ sp.iSubRec \in Nat /\ sp.iOffset \in Nat /\ sp.nOrig > 0 /\ g.dbOrigSize <= sp.nOrig
      /\ sp.iSubRec <= Len(g.sub) /\ g.sub \in Seq(Entry) /\ Len(g.sub) \in Nat /\ g.dbOrigSize \in Nat
  <2>1. sp \in Save /\ sp.iSubRec <= Len(g.sub) /\ g.sub \in Seq(Entry) /\ g.dbOrigSize \in Nat
    BY DEF Ready, PagerType
  <2>2. QED
    BY <1>5, <2>1 DEF Save, SaveRight
<1>7. PagesOf(w, f) = IF p = 1 THEN d.n ELSE PagesOf(g, f)
  BY WritesPages DEF Ready, PagerType, Sizes
<1>8. /\ LastOf(g) <= LastOf(w) /\ LastOf(w) \in Nat /\ LastOf(g) \in Nat
      /\ \A b \in Records(g, J) : b \in Records(w, K) /\ K[b] = J[b] /\ b <= LastOf(g)
      /\ NewRecord(g, J, w, K, p, x) \/ NoRecord(g, J, w, K, p, x)
      /\ \A b \in Records(w, K) :
            \/ b \in Records(g, J)
            \/ NewRecord(g, J, w, K, p, x) /\ b = LastOf(g) + 1 /\ K[b].pgno = p /\ K[b].data = x
      /\ NewRecord(g, J, w, K, p, x) => LastOf(g) + 1 \in Records(w, K) /\ K[LastOf(g) + 1] = Record(p, x, g.nonce)
  <2>1. NewRecord(g, J, w, K, p, x) \/ NoRecord(g, J, w, K, p, x)
    BY DEF Writes
  <2>2. LastOf(g) \in Nat
    BY ReadyEnd
  <2> HIDE DEF x
  <2>3. /\ LastOf(g) <= LastOf(w) /\ LastOf(w) \in Nat
        /\ \A b \in Records(g, J) : b \in Records(w, K) /\ K[b] = J[b] /\ b <= LastOf(g)
        /\ \A b \in Records(w, K) :
              \/ b \in Records(g, J)
              \/ NewRecord(g, J, w, K, p, x) /\ b = LastOf(g) + 1 /\ K[b].pgno = p /\ K[b].data = x
        /\ NewRecord(g, J, w, K, p, x) => LastOf(g) + 1 \in Records(w, K) /\ K[LastOf(g) + 1] = Record(p, x, g.nonce)
    BY <1>1, <1>2, <2>1, RecordsAfter
  <2>4. QED
    BY <2>1, <2>2, <2>3
<1>9. NewRecord(g, J, w, K, p, x) /\ p = 1 => x.n <= sp.nOrig
  <2>1. ASSUME NewRecord(g, J, w, K, p, x), p = 1 PROVE x.n <= sp.nOrig
    <3>1. 1 \notin g.pInJournal /\ g.dbOrigSize > 0
      BY <2>1, <1>6 DEF NewRecord
    <3>2. PagesOf(g, f) <= g.dbOrigSize
      BY <1>5, <3>1 DEF SavesRight
    <3>3. x.n \in Nat
      BY <1>1, <1>6 DEF Page, Sizes
    <3>4. QED
      BY <1>3, <1>6, <2>1, <3>2, <3>3
  <2>2. QED
    BY <2>1
<1>10. sp.iOffset <= LastOf(g)
  BY <1>5 DEF SaveRight
<1> HIDE DEF x, sp, sq
<1>11. CASE \E b \in MainOne(g, J, sp) : J[b].data.n <= sp.nOrig
  <2>1. PICK b \in MainOne(g, J, sp) : J[b].data.n <= sp.nOrig
    BY <1>11
  <2>2. b \in MainOne(w, K, sq) /\ K[b].data.n <= sq.nOrig
    BY <1>4, <1>8, <2>1 DEF MainOne
  <2>3. QED
    BY <2>2 DEF FirstOne, sq
<1>12. CASE NewRecord(g, J, w, K, p, x) /\ p = 1
  <2>1. LastOf(g) + 1 \in Records(w, K) /\ K[LastOf(g) + 1].pgno = 1 /\ K[LastOf(g) + 1].data = x
    BY <1>8, <1>12 DEF Record
  <2>2. LastOf(g) + 1 > sq.iOffset
    BY <1>4, <1>6, <1>8, <1>10
  <2>3. LastOf(g) + 1 \in MainOne(w, K, sq)
    BY <2>1, <2>2 DEF MainOne
  <2>4. K[LastOf(g) + 1].data.n <= sq.nOrig
    BY <1>4, <1>9, <1>12, <2>1
  <2>5. QED
    BY <2>3, <2>4 DEF FirstOne, sq
<1>13. CASE MainOne(g, J, sp) = {} /\ ~(NewRecord(g, J, w, K, p, x) /\ p = 1)
  <2>1. MainOne(w, K, sq) = {}
    <3> SUFFICES ASSUME NEW b \in MainOne(w, K, sq) PROVE FALSE
      OBVIOUS
    <3>1. b \in Records(w, K) /\ b > sp.iOffset /\ K[b].pgno = 1
      BY <1>4 DEF MainOne
    <3>2. b \in Records(g, J) /\ J[b].pgno = 1
      BY <1>8, <1>13, <3>1
    <3>3. QED
      BY <1>13, <3>1, <3>2 DEF MainOne
  <2>2. \/ w.sub = g.sub
        \/ w.sub = Append(g.sub, [pgno |-> p, data |-> x])
    BY <1>8 DEF NewRecord, NoRecord
  <2>3. /\ Len(w.sub) \in {Len(g.sub), Len(g.sub) + 1}
        /\ \A k \in 1 .. Len(g.sub) : w.sub[k] = g.sub[k]
    BY <1>6, <2>2
  <2>4. CASE \E k \in SubOne(g, sp) : (\A m \in SubOne(g, sp) : k <= m) /\ g.sub[k].data.n <= sp.nOrig
    <3>1. PICK k \in SubOne(g, sp) : (\A m \in SubOne(g, sp) : k <= m) /\ g.sub[k].data.n <= sp.nOrig
      BY <2>4
    <3>2. k \in sp.iSubRec + 1 .. Len(g.sub) /\ k \in 1 .. Len(g.sub)
      BY <1>6 DEF SubOne
    <3>3. k \in SubOne(w, sq) /\ w.sub[k].data.n <= sq.nOrig
      BY <1>4, <1>6, <2>3, <3>1, <3>2 DEF SubOne
    <3>4. \A m \in SubOne(w, sq) : k <= m
      <4> SUFFICES ASSUME NEW m \in SubOne(w, sq) PROVE k <= m
        OBVIOUS
      <4>1. m \in sp.iSubRec + 1 .. Len(w.sub) /\ w.sub[m].pgno = 1
        BY <1>4 DEF SubOne
      <4>2. CASE m <= Len(g.sub)
        <5>1. m \in sp.iSubRec + 1 .. Len(g.sub) /\ m \in 1 .. Len(g.sub)
          BY <1>6, <4>1, <4>2
        <5>2. m \in SubOne(g, sp)
          BY <2>3, <4>1, <5>1 DEF SubOne
        <5>3. QED
          BY <3>1, <5>2
      <4>3. CASE ~(m <= Len(g.sub))
        BY <1>6, <3>2, <4>1, <4>3
      <4>4. QED
        BY <4>2, <4>3
    <3>5. QED
      BY <2>1, <3>3, <3>4 DEF FirstOne, sq
  <2>5. CASE SubOne(g, sp) = {} /\ 1 \notin sp.inSavepoint /\ PagesOf(g, f) <= sp.nOrig
    <3>1. CASE p = 1
      <4>1. w.sub = Append(g.sub, [pgno |-> p, data |-> x])
        <5>1. NoRecord(g, J, w, K, p, x)
          BY <1>8, <1>13, <3>1
        <5>2. 1 <= sp.nOrig
          BY <1>6
        <5>3. QED
          BY <2>5, <3>1, <5>1, <5>2 DEF NoRecord, sp
      <4> DEFINE k == Len(g.sub) + 1
      <4>2. Len(w.sub) = k /\ w.sub[k] = [pgno |-> p, data |-> x]
        BY <1>6, <4>1
      <4>3. k \in sq.iSubRec + 1 .. Len(w.sub)
        BY <1>4, <1>6, <4>2
      <4>4. k \in SubOne(w, sq)
        BY <3>1, <4>2, <4>3 DEF SubOne
      <4>5. w.sub[k].data.n <= sq.nOrig
        BY <1>3, <1>4, <2>5, <3>1, <4>2
      <4>6. \A m \in SubOne(w, sq) : k <= m
        <5> SUFFICES ASSUME NEW m \in SubOne(w, sq), ~(k <= m) PROVE FALSE
          OBVIOUS
        <5>1. m \in sp.iSubRec + 1 .. Len(w.sub) /\ w.sub[m].pgno = 1
          BY <1>4 DEF SubOne
        <5>2. m \in sp.iSubRec + 1 .. Len(g.sub) /\ m \in 1 .. Len(g.sub)
          BY <1>6, <5>1
        <5>3. m \in SubOne(g, sp)
          BY <2>3, <5>1, <5>2 DEF SubOne
        <5>4. QED
          BY <2>5, <5>3
      <4> HIDE DEF k
      <4>7. QED
        BY <2>1, <4>4, <4>5, <4>6 DEF FirstOne, sq
    <3>2. CASE p # 1
      <4>1. SubOne(w, sq) = {}
        <5> SUFFICES ASSUME NEW m \in SubOne(w, sq) PROVE FALSE
          OBVIOUS
        <5>1. m \in sp.iSubRec + 1 .. Len(w.sub) /\ w.sub[m].pgno = 1
          BY <1>4 DEF SubOne
        <5>2. m # Len(g.sub) + 1 \/ Len(w.sub) = Len(g.sub)
          BY <1>6, <2>2, <3>2, <5>1
        <5>3. m \in sp.iSubRec + 1 .. Len(g.sub) /\ m \in 1 .. Len(g.sub)
          BY <1>6, <2>3, <5>1, <5>2
        <5>4. m \in SubOne(g, sp)
          BY <2>3, <5>1, <5>3 DEF SubOne
        <5>5. QED
          BY <2>5, <5>4
      <4>2. QED
        BY <1>4, <1>7, <2>1, <2>5, <3>2, <4>1 DEF FirstOne, sq
    <3>3. QED
      BY <3>1, <3>2
  <2>6. QED
    BY <1>5, <1>11, <1>13, <2>4, <2>5 DEF SaveRight, FirstOne
<1>14. QED
  BY <1>5, <1>11, <1>12, <1>13 DEF SaveRight, FirstOne

\* and whose savepoints can be restored.
LEMMA WritesSaves ==
    ASSUME Sizes, NEW g, NEW J, NEW f, NEW safe, NEW v \in Nat, Ready(g, J, f, safe, v),
           NEW w, NEW K, NEW p \in 1 .. MaxPages, NEW d \in Page, Writes(g, J, f, w, K, p, d), p <= g.dbSize + 1
    PROVE  SavesRight(w, K, f)
<1> DEFINE x == Get(g.cache, f, g.dbSize, p)
<1>1. x \in Page
  BY GetTyped DEF Ready, PagerType, Sizes
<1>2. Kept3(g, w) /\ SavesMarked(g.aSavepoint, w.aSavepoint, p) /\ w.dbSize = Bigger(g.dbSize, p)
  BY DEF Writes
<1>3. NewRecord(g, J, w, K, p, x) \/ NoRecord(g, J, w, K, p, x)
  BY DEF Writes
<1>4. PICK sync \in BOOLEAN : CacheSet(g.cache, w.cache, p, d, sync)
  BY DEF Writes
<1>5. DOMAIN w.cache = DOMAIN g.cache \cup {p}
  BY <1>4 DEF CacheSet
<1>6. SavesRight(g, J, f)
  BY DEF Ready
<1>7. g.sub \in Seq(Entry) /\ Len(g.sub) \in Nat /\ g.dbOrigSize \in Nat /\ g.dbSize \in Nat /\ p \in Nat
      /\ g.aSavepoint \in Seq(Save)
  BY DEF Ready, PagerType, Sizes
<1>8. PagesOf(w, f) = IF p = 1 THEN d.n ELSE PagesOf(g, f)
  BY WritesPages DEF Ready, PagerType, Sizes
<1> HIDE DEF x
<1>9. SubRight(w)
  <2>1. CASE w.sub = g.sub
    <3>1. g.pInJournal \subseteq w.pInJournal
      BY <1>3 DEF NewRecord, NoRecord
    <3>2. QED
      BY <1>2, <1>5, <1>6, <2>1, <3>1 DEF SavesRight, SubRight, Kept3
  <2>2. CASE w.sub = Append(g.sub, [pgno |-> p, data |-> x]) /\ w.sub # g.sub
    <3>1. w.pInJournal = g.pInJournal /\ (p \in g.pInJournal \/ p > g.dbOrigSize)
      BY <1>3, <2>2 DEF NewRecord, NoRecord
    <3>2. Len(w.sub) = Len(g.sub) + 1 /\ w.sub[Len(g.sub) + 1].pgno = p
          /\ \A k \in 1 .. Len(g.sub) : w.sub[k] = g.sub[k]
      BY <1>7, <2>2
    <3>3. \A k \in 1 .. Len(w.sub) : k = Len(g.sub) + 1 \/ k \in 1 .. Len(g.sub)
      BY <1>7, <3>2
    <3>4. QED
      BY <1>2, <1>5, <1>6, <3>1, <3>2, <3>3 DEF SavesRight, SubRight, Kept3
  <2>3. QED
    BY <1>3, <2>1, <2>2 DEF NewRecord, NoRecord
<1>10. w.dbOrigSize > 0 /\ 1 \notin w.pInJournal => PagesOf(w, f) <= w.dbOrigSize
  <2>1. g.pInJournal \subseteq w.pInJournal /\ w.dbOrigSize = g.dbOrigSize
    BY <1>2, <1>3 DEF NewRecord, NoRecord, Kept3
  <2>2. p = 1 /\ g.dbOrigSize > 0 => 1 \in w.pInJournal
    BY <1>3, <1>7 DEF NewRecord, NoRecord
  <2>3. QED
    BY <1>6, <1>8, <2>1, <2>2 DEF SavesRight
<1>11. ASSUME NEW i \in 1 .. Len(w.aSavepoint) PROVE SaveRight(w, K, f, w.aSavepoint[i])
  <2> DEFINE sp == g.aSavepoint[i]
             sq == w.aSavepoint[i]
  <2>1. /\ i \in 1 .. Len(g.aSavepoint)
        /\ sq.nOrig = sp.nOrig /\ sq.iSubRec = sp.iSubRec /\ sq.iOffset = sp.iOffset /\ sq.iHdrOffset = sp.iHdrOffset
    BY <1>2 DEF SavesMarked
  <2>2. SaveRight(g, J, f, sp)
    BY <1>6, <2>1 DEF SavesRight
  <2>3. sp.nOrig \in Nat /\ sp.iOffset \in Nat /\ sp.iHdrOffset \in Nat
    <3>1. sp \in Save
      BY <1>7, <2>1
    <3>2. QED
      BY <3>1 DEF Save
  <2>4. /\ LastOf(g) <= LastOf(w) /\ LastOf(w) \in Nat /\ LastOf(g) \in Nat
        /\ g.journalHdr \in Nat /\ g.journalHdr + 1 <= LastOf(g) /\ w.journalHdr = g.journalHdr
        /\ LastOf(g) <= Len(J) /\ Len(J) \in Nat
    <3>1. LastOf(g) <= LastOf(w) /\ LastOf(w) \in Nat
      BY <1>1, <1>2, <1>3, RecordsAfter
    <3>2. /\ LastOf(g) \in Nat /\ g.journalHdr \in Nat /\ LastOf(g) = g.journalHdr + 1 + g.nRec /\ g.nRec \in Nat
          /\ LastOf(g) <= Len(J) /\ Len(J) \in Nat
      BY ReadyEnd
    <3>3. QED
      BY <1>2, <3>1, <3>2 DEF Kept3
  <2>5. \A m \in 1 .. g.journalHdr + 1 : K[m] = J[m]
    <3>1. CASE NewRecord(g, J, w, K, p, x)
      <4>1. LastOf(w) = LastOf(g) + 1 /\ \A m \in 1 .. Len(J) : m # LastOf(w) => K[m] = J[m]
        <5>1. LastOf(w) = LastOf(g) + 1
          BY <1>1, <1>2, <3>1, RecordAdded
        <5>2. \A m \in 1 .. Len(J) : m # LastOf(w) => K[m] = J[m]
          BY <1>1, <1>2, <3>1, RecordAdded
        <5>3. QED
          BY <5>1, <5>2
      <4>2. QED
        BY <2>4, <4>1
    <3>2. CASE NoRecord(g, J, w, K, p, x)
      BY <3>2 DEF NoRecord
    <3>3. QED
      BY <1>3, <3>1, <3>2
  <2>6. FirstOne(w, K, f, sq)
    BY <2>1, FirstOneWritten
  <2>7. g.dbSize <= w.dbSize /\ w.dbSize \in Nat /\ w.dbOrigSize = g.dbOrigSize
    BY <1>2, <1>7, BiggerFacts DEF Kept3
  <2> HIDE DEF sp, sq
  <2>8. /\ w.dbOrigSize <= sq.nOrig /\ sq.nOrig <= w.dbSize /\ sq.nOrig > 0
        /\ sq.iOffset > 0 /\ sq.iOffset <= LastOf(w)
    BY <1>7, <2>1, <2>2, <2>3, <2>4, <2>7 DEF SaveRight
  <2>9. \/ sq.iHdrOffset = 0 /\ sq.iOffset > w.journalHdr
        \/ /\ sq.iOffset <= sq.iHdrOffset /\ sq.iHdrOffset <= w.journalHdr
           /\ \A m \in sq.iOffset + 1 .. sq.iHdrOffset : K[m].kind = "rec"
           /\ K[sq.iHdrOffset + 1].kind = "hdr"
    <3>1. CASE sp.iHdrOffset = 0 /\ sp.iOffset > g.journalHdr
      BY <2>1, <2>4, <3>1
    <3>2. CASE /\ sp.iOffset <= sp.iHdrOffset /\ sp.iHdrOffset <= g.journalHdr
               /\ \A m \in sp.iOffset + 1 .. sp.iHdrOffset : J[m].kind = "rec"
               /\ J[sp.iHdrOffset + 1].kind = "hdr"
      <4>1. \A m \in sp.iOffset + 1 .. sp.iHdrOffset : m \in 1 .. g.journalHdr + 1
        BY <2>3, <2>4, <3>2
      <4>2. sp.iHdrOffset + 1 \in 1 .. g.journalHdr + 1
        BY <2>3, <2>4, <3>2
      <4>3. QED
        BY <2>1, <2>4, <2>5, <3>2, <4>1, <4>2
    <3>3. QED
      BY <2>2, <3>1, <3>2 DEF SaveRight
  <2>10. QED
    BY <2>6, <2>8, <2>9 DEF SaveRight, sq
<1>12. Nested(w.aSavepoint)
  <2>1. Nested(g.aSavepoint)
    BY <1>6 DEF SavesRight
  <2>2. QED
    BY <1>2, <2>1 DEF SavesMarked, Nested
<1>13. QED
  BY <1>9, <1>10, <1>11, <1>12 DEF SavesRight

\* A write leaves a ready pager.
LEMMA WritesReady ==
    ASSUME Sizes, NEW g, NEW J, NEW f, NEW safe, NEW v \in Nat, Ready(g, J, f, safe, v),
           NEW w, NEW K, NEW p \in 1 .. MaxPages, NEW d \in Page, Writes(g, J, f, w, K, p, d), p <= g.dbSize + 1
    PROVE  /\ Ready(w, K, f, safe, v) /\ w.dbSize = Bigger(g.dbSize, p) /\ w.dbSize > 0
           /\ PagesOf(w, f) = IF p = 1 THEN d.n ELSE PagesOf(g, f)
<1>1. PagerType(w) /\ JournalFile(K, v) /\ w.nonce < v /\ w.dbSize > 0
  BY WritesType
<1>2. /\ Layout(w, K) /\ SyncedRight(w, K, safe) /\ RecordsRight(w, K)
      /\ ~K[w.journalHdr + 1].magic /\ K[w.journalHdr + 1].n = 0
      /\ w.journalOff = LastOf(w)
  BY WritesJournal
<1>3. CacheRight(w, K, f) /\ (OwnRecords => ContentRight(w, K, f))
  BY WritesCache
<1>4. SavesRight(w, K, f)
  BY WritesSaves
<1>5. DataFile(f) /\ w.eState \in {"CACHEMOD", "DBMOD"} /\ w.header # 0 /\ w.dbSize = Bigger(g.dbSize, p)
  BY DEF Ready, Writes, Kept3
<1>6. PagesOf(w, f) = IF p = 1 THEN d.n ELSE PagesOf(g, f)
  BY WritesPages DEF Ready, PagerType, Sizes
<1>7. QED
  BY <1>1, <1>2, <1>3, <1>4, <1>5, <1>6 DEF Ready

\* A transaction that has begun.
Start(g, J, f) ==
    /\ g.eState = "LOCKED" /\ PagerType(g) /\ JournalFile(J, ver) /\ DataFile(f) /\ Begun(g, J, f)
    /\ g.dbSize > 0 \/ g.aSavepoint = <<>>

\* Opening the journal makes a pager that has begun a transaction ready.
LEMMA OpenedReady ==
    ASSUME Sizes, ver \in Nat, NEW g, NEW J, NEW f, NEW safe, Len(safe) \in Nat, Start(g, J, f)
    PROVE  LET o == JournalOpened(g, J)
           IN  /\ Ready(o.g, o.J, f, safe, ver + 1)
               /\ o.g.cache = g.cache /\ o.g.dbSize = g.dbSize /\ o.g.eState = "CACHEMOD"
<1> DEFINE o == JournalOpened(g, J)
           H == Header(FALSE, 0, ver, g.dbOrigSize)
           w == o.g
           K == o.J
<1>1. /\ o = [g |-> [g EXCEPT !.eState = "CACHEMOD", !.jfd = TRUE, !.pInJournal = {}, !.nRec = 0,
                              !.journalOff = 1, !.journalHdr = 0, !.header = 1, !.nonce = ver],
              J |-> Put(J, 1, H)]
  BY DEF JournalOpened, Start
<1>2. PagerType(g) /\ DOMAIN g = Fields /\ Begun(g, J, f) /\ JournalFile(J, ver) /\ DataFile(f)
  BY DEF Start, PagerType
<1> HIDE DEF o, H
<1>3. /\ DOMAIN w = Fields /\ w.eState = "CACHEMOD" /\ w.jfd = TRUE /\ w.pInJournal = {} /\ w.nRec = 0
      /\ w.journalOff = 1 /\ w.journalHdr = 0 /\ w.header = 1 /\ w.nonce = ver
      /\ w.cache = g.cache /\ w.dbSize = g.dbSize /\ w.dbOrigSize = g.dbOrigSize /\ w.dbFileSize = g.dbFileSize
      /\ w.sub = g.sub /\ w.aSavepoint = g.aSavepoint
      /\ K = Put(J, 1, H)
  BY <1>1, <1>2 DEF Fields
<1> HIDE DEF w, K
<1>4. Numbered(J) /\ Len(J) \in Nat /\ \A i \in 1 .. Len(J) : IsBlock(J[i], ver)
  BY <1>2 DEF JournalFile, Numbered
<1>5. /\ Numbered(K) /\ Len(K) = (IF 1 > Len(J) THEN 1 ELSE Len(J))
      /\ K[1] = H /\ \A k \in 1 .. Len(J) : k # 1 => K[k] = J[k]
  <2>1. 1 \in Nat /\ 1 > 0 /\ 1 <= Len(J) + 1
    BY <1>4
  <2>2. /\ Numbered(Put(J, 1, H)) /\ Len(Put(J, 1, H)) = (IF 1 > Len(J) THEN 1 ELSE Len(J))
        /\ Put(J, 1, H)[1] = H /\ \A k \in 1 .. Len(J) : k # 1 => Put(J, 1, H)[k] = J[k]
    <3>1. ASSUME NEW i \in Nat, i = 1
          PROVE  /\ Numbered(Put(J, i, H)) /\ Len(Put(J, i, H)) = (IF i > Len(J) THEN i ELSE Len(J))
                 /\ Put(J, i, H)[i] = H /\ \A k \in 1 .. Len(J) : k # i => Put(J, i, H)[k] = J[k]
      <4>1. i > 0 /\ i <= Len(J) + 1
        BY <1>4, <3>1
      <4>2. QED
        BY <1>4, <4>1, PutBlock
    <3>2. QED
      BY <3>1
  <2>3. QED
    BY <1>3, <2>2
<1>6. /\ H.kind = "hdr" /\ "magic" \in DOMAIN H /\ H.magic = FALSE /\ H.n = 0 /\ H.nonce = ver /\ H.orig = g.dbOrigSize
  BY DEF H, Header
<1>7. g.dbOrigSize = g.dbSize /\ g.dbFileSize = g.dbSize /\ Len(f) = g.dbSize /\ g.sub = <<>>
      /\ DOMAIN g.cache \subseteq 1 .. g.dbSize /\ Reliable(g, f) /\ PagesOf(g, f) <= g.dbSize /\ SavesFresh(g)
      /\ g.dbSize \in 0 .. MaxPages
  BY <1>2 DEF Begun, PagerType
<1>8. LastOf(w) = 1
  BY <1>3 DEF LastOf
<1>9. JournalFile(K, ver + 1)
  <2>1. IsBlock(K[1], ver + 1)
    <3>1. H.orig \in 0 .. MaxPages /\ H.magic \in BOOLEAN /\ H.n \in Nat /\ H.nonce \in Nat
      <4>1. H.orig \in 0 .. MaxPages
        BY <1>6, <1>7
      <4>2. H.magic \in BOOLEAN
        BY <1>6
      <4>3. H.n \in Nat /\ H.nonce \in Nat
        BY <1>6
      <4>4. QED
        BY <4>1, <4>2, <4>3
    <3>2. IsBlock(H, ver + 1)
      BY <1>6, <3>1 DEF IsBlock
    <3>3. QED
      BY <1>5, <3>2
  <2>2. \A k \in 1 .. Len(J) : k # 1 => IsBlock(K[k], ver + 1)
    BY <1>4, <1>5 DEF IsBlock
  <2>3. \A k \in 1 .. Len(K) : k = 1 \/ k \in 1 .. Len(J)
    BY <1>4, <1>5
  <2>4. \A k \in 1 .. Len(K) : IsBlock(K[k], ver + 1)
    BY <2>1, <2>2, <2>3
  <2>5. QED
    BY <1>5, <2>4 DEF JournalFile
<1>10. Records(w, K) = {}
  BY <1>5, <1>6, <1>8 DEF Records, RecordsIn
<1>11. PagerType(w)
  <2>1. w.pInJournal \subseteq 1 .. w.dbOrigSize
    BY <1>3
  <2>2. w.eState \in {"OPEN", "READER", "ERROR"} \cup Writer /\ w.jfd \in BOOLEAN
    BY <1>3 DEF Writer
  <2>3. w.nRec \in Nat /\ w.journalOff \in Nat /\ w.journalHdr \in Nat /\ w.header \in Nat /\ w.nonce \in Nat
    BY <1>3
  <2>4. QED
    BY <1>2, <1>3, <2>1, <2>2, <2>3 DEF PagerType
<1>12. Layout(w, K)
  <2>1. Segments(K, 0, w.dbOrigSize)
    BY DEF Segments
  <2>2. InProgressRight(w, K)
    <3>1. \A m \in 2 .. Len(K) : ~Good(K, m, ver)
      <4> SUFFICES ASSUME NEW m \in 2 .. Len(K), Good(K, m, ver) PROVE FALSE
        OBVIOUS
      <4>1. m \in 1 .. Len(J) /\ m # 1
        BY <1>4, <1>5
      <4>2. J[m].kind = "rec" /\ J[m].nonce = ver
        BY <1>5, <4>1 DEF Good
      <4>3. J[m].nonce \in Nat /\ J[m].nonce < ver
        BY <1>4, <4>1, <4>2 DEF IsBlock
      <4>4. QED
        BY <4>2, <4>3
    <3>2. K[1].kind = "hdr" /\ K[1].orig = w.dbOrigSize /\ K[1].nonce = w.nonce
      BY <1>3, <1>5, <1>6
    <3>3. QED
      BY <1>3, <1>8, <3>1, <3>2 DEF InProgressRight
  <2>3. 1 <= Len(K) /\ K[1].kind = "hdr" /\ K[1].orig = w.dbOrigSize
    BY <1>3, <1>4, <1>5, <1>6
  <2>4. QED
    BY <1>3, <1>8, <2>1, <2>2, <2>3 DEF Layout
<1>13. RecordsRight(w, K)
  BY <1>3, <1>10 DEF RecordsRight
<1>14. SyncedRight(w, K, safe)
  BY <1>3 DEF SyncedRight
<1>15. CacheRight(w, K, f) /\ (OwnRecords => ContentRight(w, K, f))
  <2>1. \A p \in DOMAIN w.cache : p \in 1 .. g.dbSize /\ ~(p > g.dbOrigSize) /\ p <= Len(f)
    BY <1>3, <1>7
  <2>2. CacheRight(w, K, f)
    BY <1>3, <1>7, <1>10, <2>1 DEF CacheRight
  <2>3. OwnRecords => ContentRight(w, K, f)
    BY <1>3, <1>7, <1>10 DEF ContentRight, Reliable
  <2>4. QED
    BY <2>2, <2>3
<1>16. SavesRight(w, K, f)
  <2>1. PagesOf(w, f) = PagesOf(g, f)
    BY <1>3 DEF PagesOf
  <2>2. SubRight(w)
    BY <1>3, <1>7 DEF SubRight
  <2>3. ASSUME NEW i \in 1 .. Len(w.aSavepoint) PROVE SaveRight(w, K, f, w.aSavepoint[i])
    <3> DEFINE sp == g.aSavepoint[i]
    <3>1. /\ sp.nOrig = g.dbSize /\ sp.iHdrOffset = 0 /\ sp.iOffset = 1 /\ sp.iSubRec = 0 /\ sp.inSavepoint = {}
      BY <1>3, <1>7 DEF SavesFresh
    <3>2. g.dbSize > 0
      BY <1>3 DEF Start
    <3> HIDE DEF sp
    <3>3. MainOne(w, K, sp) = {} /\ SubOne(w, sp) = {}
      BY <1>3, <1>7, <1>10, <3>1 DEF MainOne, SubOne
    <3>4. FirstOne(w, K, f, sp)
      BY <1>7, <2>1, <3>1, <3>3 DEF FirstOne
    <3>5. SaveRight(w, K, f, sp)
      BY <1>3, <1>7, <1>8, <3>1, <3>2, <3>4 DEF SaveRight
    <3>6. QED
      BY <1>3, <3>5 DEF sp
  <2>4. Nested(w.aSavepoint)
    BY <1>3, <1>7 DEF Nested, SavesFresh
  <2>5. QED
    BY <1>3, <1>7, <2>1, <2>2, <2>3, <2>4 DEF SavesRight
<1>17. Ready(w, K, f, safe, ver + 1)
  BY <1>2, <1>3, <1>5, <1>6, <1>8, <1>9, <1>11, <1>12, <1>13, <1>14, <1>15, <1>16 DEF Ready
<1>18. QED
  BY <1>3, <1>17 DEF w, K, o

\* What a statement may write to.
InWork(g, J, f, safe) ==
    (g.eState # "LOCKED" /\ Ready(g, J, f, safe, ver + 1)) \/ Start(g, J, f)

\* So pager_write leaves a pager that is ready for the next call.
LEMMA WrittenReady ==
    ASSUME Sizes, ver \in Nat, NEW s, NEW safe, Len(safe) \in Nat, InWork(s.g, s.J, db.vis, safe),
           NEW p \in 1 .. MaxPages, NEW d \in Page, p <= s.g.dbSize + 1
    PROVE  LET w == Written(s, p, d)
           IN  /\ Ready(w.g, w.J, db.vis, safe, ver + 1) /\ w.g.eState # "LOCKED"
               /\ w.g.dbSize = Bigger(s.g.dbSize, p) /\ w.g.dbSize > 0
               /\ PagesOf(w.g, db.vis) = IF p = 1 THEN d.n ELSE PagesOf(s.g, db.vis)
<1>1. ASSUME NEW g, NEW J, g.eState # "LOCKED", Ready(g, J, db.vis, safe, ver + 1), p <= g.dbSize + 1
      PROVE  LET w == Written([g |-> g, J |-> J], p, d)
             IN  /\ Ready(w.g, w.J, db.vis, safe, ver + 1) /\ w.g.eState # "LOCKED"
                 /\ w.g.dbSize = Bigger(g.dbSize, p) /\ w.g.dbSize > 0
                 /\ PagesOf(w.g, db.vis) = IF p = 1 THEN d.n ELSE PagesOf(g, db.vis)
  <2> DEFINE w == Written([g |-> g, J |-> J], p, d)
  <2>1. PagerType(g)
    BY <1>1 DEF Ready
  <2>2. Writes(g, J, db.vis, w.g, w.J, p, d)
    BY <1>1, <2>1, WrittenEffect DEF Writes
  <2> HIDE DEF w
  <2> DEFINE v == ver + 1
             f == db.vis
  <2>3. v \in Nat /\ Ready(g, J, f, safe, v) /\ Writes(g, J, f, w.g, w.J, p, d) /\ p <= g.dbSize + 1
    BY <1>1, <2>2
  <2> HIDE DEF v, f
  <2> DEFINE x == w.g
             K == w.J
  <2>4. Writes(g, J, f, x, K, p, d)
    BY <2>3
  <2> HIDE DEF x, K
  <2>5. /\ Ready(x, K, f, safe, v) /\ x.dbSize = Bigger(g.dbSize, p) /\ x.dbSize > 0
        /\ PagesOf(x, f) = IF p = 1 THEN d.n ELSE PagesOf(g, f)
    BY <2>3, <2>4, WritesReady
  <2>6. /\ Ready(w.g, w.J, f, safe, v) /\ w.g.dbSize = Bigger(g.dbSize, p) /\ w.g.dbSize > 0
        /\ PagesOf(w.g, f) = IF p = 1 THEN d.n ELSE PagesOf(g, f)
    BY <2>5 DEF x, K
  <2>7. /\ Ready(w.g, w.J, db.vis, safe, ver + 1) /\ w.g.dbSize = Bigger(g.dbSize, p) /\ w.g.dbSize > 0
        /\ PagesOf(w.g, db.vis) = IF p = 1 THEN d.n ELSE PagesOf(g, db.vis)
    BY <2>6 DEF v, f
  <2>8. w.g.eState # "LOCKED"
    BY <2>7 DEF Ready
  <2>9. QED
    BY <2>7, <2>8 DEF w
<1>2. CASE s.g.eState # "LOCKED" /\ Ready(s.g, s.J, db.vis, safe, ver + 1)
  <2>1. Written(s, p, d) = Written([g |-> s.g, J |-> s.J], p, d)
    BY DEF Written
  <2>2. QED
    BY <1>1, <1>2, <2>1
<1>3. CASE Start(s.g, s.J, db.vis)
  <2> DEFINE o == JournalOpened(s.g, s.J)
  <2>1. /\ Ready(o.g, o.J, db.vis, safe, ver + 1)
        /\ o.g.cache = s.g.cache /\ o.g.dbSize = s.g.dbSize /\ o.g.eState = "CACHEMOD"
    BY <1>3, OpenedReady
  <2>2. PagesOf(o.g, db.vis) = PagesOf(s.g, db.vis)
    BY <2>1 DEF PagesOf
  <2> DEFINE body(g, J, old) ==
                 LET j == Journalled(g, J, p, old)
                     k == SubJournalled(j.g, p, old)
                 IN  [g |-> [k EXCEPT !.cache = Cached(@, p, d, TRUE, j.sync), !.dbSize = Bigger(@, p)], J |-> j.J]
  <2>6. Written(s, p, d) = body(o.g, o.J, Get(s.g.cache, db.vis, s.g.dbSize, p))
    BY DEF Written
  <2> HIDE DEF o
  <2>3. JournalOpened(o.g, o.J) = [g |-> o.g, J |-> o.J]
    BY <2>1 DEF JournalOpened
  <2>4. Written(s, p, d) = Written([g |-> o.g, J |-> o.J], p, d)
    <3>1. Written([g |-> o.g, J |-> o.J], p, d) = body(o.g, o.J, Get(o.g.cache, db.vis, o.g.dbSize, p))
      <4> DEFINE q == [g |-> o.g, J |-> o.J]
      <4>1. q.g = o.g /\ q.J = o.J
        OBVIOUS
      <4>2. JournalOpened(q.g, q.J) = q
        BY <2>3, <4>1
      <4> HIDE DEF q
      <4>3. Written(q, p, d) = body(q.g, q.J, Get(q.g.cache, db.vis, q.g.dbSize, p))
        BY <4>2 DEF Written
      <4> HIDE DEF body
      <4>4. QED
        BY <4>1, <4>3 DEF q
    <3> HIDE DEF body
    <3>2. QED
      BY <2>1, <2>6, <3>1
  <2>5. QED
    BY <1>1, <2>1, <2>2, <2>4
<1>4. QED
  BY <1>2, <1>3 DEF InWork

(***************************************************************************)
(* From one state to the next.                                             *)
(***************************************************************************)
LEMMA Bounds ==
    ASSUME WholeInv
    PROVE  /\ Sizes /\ ver \in Nat /\ ver <= MaxVersion /\ faults \in Nat /\ MaxVersion \in Nat /\ MaxFaults \in Nat
           /\ DOMAIN pager = Fields /\ PagerType(pager)
           /\ Len(jrnl.vis) \in Nat /\ Len(jrnl.safe) \in Nat /\ Len(db.vis) \in Nat /\ Len(db.safe) \in Nat
<1>1. /\ setting.journalMode \in {"DELETE", "TRUNCATE", "PERSIST"} /\ setting.fullSync \in BOOLEAN
      /\ {setting.maxVersion, setting.maxSaves, setting.maxFaults, setting.maxCrashes, MaxPages} \subseteq Nat
  BY SettingAssumption DEF WholeInv, Basics
<1>2. Basics
  BY DEF WholeInv
<1>3. setting.maxVersion \in Nat /\ setting.maxFaults \in Nat
  BY <1>1
<1>4. QED
  BY <1>2, <1>3 DEF Basics, Sizes, MaxVersion, MaxFaults, PagerType, JournalFile, DataFile, Numbered

\* What is said of a state with the same settings holds of the next one.
LEMMA CarriedTypes ==
    ASSUME setting' = setting
    PROVE  /\ \A f : DataFile(f)' <=> DataFile(f)
           /\ \A J, v : JournalFile(J, v)' <=> JournalFile(J, v)
           /\ \A g : PagerType(g)' <=> PagerType(g)
           /\ Sizes' <=> Sizes /\ MaxVersion' = MaxVersion
<1>1. Page' = Page
  BY DEF Page, MaxVersion
<1>2. \A f : DataFile(f)' <=> DataFile(f)
  BY <1>1 DEF DataFile
<1>3. \A J, v : JournalFile(J, v)' <=> JournalFile(J, v)
  BY <1>1 DEF JournalFile, IsBlock
<1>4. \A g : PagerType(g)' <=> PagerType(g)
  BY <1>1 DEF PagerType, CacheType, Entry
<1>5. QED
  BY <1>2, <1>3, <1>4 DEF Sizes, MaxVersion

\* What is said of contents stays true when a fault is counted.
LEMMA CarriedContent ==
    ASSUME OwnRecords' => OwnRecords
    PROVE  /\ \A g, f : Reliable(g, f) => Reliable(g, f)'
           /\ \A g, J, f : Begun(g, J, f) => Begun(g, J, f)'
<1>1. \A g, f : Reliable(g, f) => Reliable(g, f)'
  BY DEF Reliable
<1>2. \A g, J, f : Begun(g, J, f) => Begun(g, J, f)'
  BY <1>1 DEF Begun
<1>3. QED
  BY <1>1, <1>2

\* A fault is never taken back.
LEMMA CarriedOwn ==
    ASSUME setting' = setting, faults \in Nat, faults' = faults \/ faults' = faults + 1
    PROVE  (OwnRecords' => OwnRecords) /\ (faults > 0 => faults' > 0) /\ faults' \in Nat
  BY DEF OwnRecords

\* The types and bounds after a step.
LEMMA BasicsRight ==
    ASSUME Sizes, setting' = setting, setting \in Settings, faults' \in Nat,
           ver' \in Nat, ver' <= MaxVersion, DOMAIN pc' = {"at", "task", "page"},
           PagerType(pager'), pager'.nonce <= ver', DataFile(db'.vis), DataFile(db'.safe),
           JournalFile(jrnl'.vis, ver'), JournalFile(jrnl'.safe, ver'),
           JournalFile(gone'.vis, ver'), JournalFile(gone'.safe, ver')
    PROVE  Basics'
  BY CarriedTypes DEF Basics, Sizes

\* A ready pager is what a statement, a spill or a commit finds.
LEMMA ReadyRight ==
    ASSUME Sizes, setting' = setting, setting \in Settings, OwnRecords' => OwnRecords, faults' \in Nat,
           ver' \in Nat, ver' <= MaxVersion, DOMAIN pc' = {"at", "task", "page"},
           NEW v, Ready(pager', jrnl'.vis, db'.vis, jrnl'.safe, v),
           JournalFile(jrnl'.vis, ver'), pager'.nonce <= ver', JournalFile(jrnl'.safe, ver'), DataFile(db'.safe),
           JournalFile(gone'.vis, ver'), JournalFile(gone'.safe, ver'),
           PagesOf(pager', db'.vis) <= pager'.dbSize, pager'.dbSize > 0,
           \/ pc' = Idle
           \/ pc'.at = "syncRecords" /\ pc'.task \in {"spill", "commit"}
              /\ (pc'.task = "spill" => pc'.page \in DOMAIN pager'.cache)
           \/ /\ pc'.at = "writePages" /\ pc'.task = "spill" /\ pager'.eState = "DBMOD"
              /\ pc'.page \in DOMAIN pager'.cache /\ ~pager'.cache[pc'.page].sync
    PROVE  WholeInv'
<1> DEFINE g == pager'
           J == jrnl'.vis
           f == db'.vis
           safe == jrnl'.safe
<1>1. /\ PagerType(g) /\ DataFile(f)
      /\ g.eState \in {"CACHEMOD", "DBMOD"} /\ g.header # 0 /\ g.journalOff = LastOf(g)
      /\ Layout(g, J) /\ ~J[g.journalHdr + 1].magic /\ J[g.journalHdr + 1].n = 0
      /\ RecordsRight(g, J) /\ SyncedRight(g, J, safe)
      /\ CacheRight(g, J, f) /\ (OwnRecords => ContentRight(g, J, f))
      /\ SavesRight(g, J, f)
  BY DEF Ready
<1>2. Basics'
  BY <1>1, BasicsRight
<1>3. pc' = Idle => pc'.at = "idle" /\ pc'.task = "none"
  BY DEF Idle
<1>4. Flow'
  BY <1>1, <1>3 DEF Flow, Idle
<1>5. OpenRight' /\ ReaderRight' /\ LockedRight'
  BY <1>1 DEF OpenRight, ReaderRight, LockedRight
<1>6. Stage'
  BY <1>1, <1>3 DEF Stage
<1>7. WriterRight'
  BY <1>1, <1>6 DEF WriterRight
<1>8. QED
  BY <1>2, <1>4, <1>5, <1>7 DEF WholeInv

\* Between two calls of a statement.
LEMMA WorkNow ==
    ASSUME WholeInv, pc = Idle, pager.eState \in {"LOCKED", "CACHEMOD", "DBMOD"}
    PROVE  /\ InWork(pager, jrnl.vis, db.vis, jrnl.safe)
           /\ PagesOf(pager, db.vis) <= pager.dbSize /\ pager.dbSize > 0
           /\ nPage = PagesOf(pager, db.vis) /\ nPage \in 0 .. MaxPages
<1>1. Sizes /\ ver \in Nat /\ PagerType(pager) /\ DataFile(db.vis)
  BY Bounds DEF WholeInv, Basics
<1>2. nPage = PagesOf(pager, db.vis)
  BY DEF nPage, Content, PagesOf
<1>3. nPage \in 0 .. MaxPages
  <2>1. CacheType(pager.cache) /\ pager.dbSize \in Nat /\ 1 \in Nat /\ 1 > 0
    BY <1>1 DEF PagerType, Sizes
  <2>2. Get(pager.cache, db.vis, pager.dbSize, 1) \in Page
    BY <1>1, <2>1, GetTyped
  <2>3. QED
    BY <1>2, <2>2 DEF PagesOf, Page
<1>4. CASE pager.eState = "LOCKED"
  <2>1. pager.dbSize > 0 /\ Begun(pager, jrnl.vis, db.vis)
    BY <1>4 DEF WholeInv, LockedRight
  <2>2. JournalFile(jrnl.vis, ver)
    BY DEF WholeInv, Basics
  <2>3. QED
    BY <1>1, <1>2, <1>3, <1>4, <2>1, <2>2 DEF InWork, Start, Begun
<1>5. CASE pager.eState \in {"CACHEMOD", "DBMOD"}
  <2>1. pager.eState \in Opened3 /\ pc.at = "idle" /\ pc.task = "none"
    BY <1>5 DEF Opened3, Idle
  <2>2. pager.header # 0
    BY <1>5, <2>1 DEF WholeInv, Flow
  <2>3. /\ Layout(pager, jrnl.vis) /\ RecordsRight(pager, jrnl.vis) /\ SyncedRight(pager, jrnl.vis, jrnl.safe)
        /\ CacheRight(pager, jrnl.vis, db.vis) /\ (OwnRecords => ContentRight(pager, jrnl.vis, db.vis))
        /\ Stage /\ SavesRight(pager, jrnl.vis, db.vis) /\ PagesOf(pager, db.vis) <= pager.dbSize /\ pager.dbSize > 0
    BY <2>1, <2>2 DEF WholeInv, WriterRight
  <2>4. /\ ~jrnl.vis[pager.journalHdr + 1].magic /\ jrnl.vis[pager.journalHdr + 1].n = 0
        /\ pager.journalOff = LastOf(pager)
    BY <2>1, <2>2, <2>3 DEF Stage
  <2>5. JournalFile(jrnl.vis, ver + 1) /\ pager.nonce < ver + 1
    <3>1. JournalFile(jrnl.vis, ver) /\ pager.nonce <= ver /\ pager.nonce \in Nat
      BY <1>1 DEF WholeInv, Basics, PagerType
    <3>2. QED
      BY <1>1, <3>1 DEF JournalFile, IsBlock
  <2>6. Ready(pager, jrnl.vis, db.vis, jrnl.safe, ver + 1)
    BY <1>1, <1>5, <2>2, <2>3, <2>4, <2>5 DEF Ready
  <2>7. QED
    BY <1>2, <1>3, <1>5, <2>3, <2>6 DEF InWork
<1>6. QED
  BY <1>4, <1>5

\* A journal older than a value is older than the next one.
LEMMA OlderBlocks ==
    ASSUME NEW J, NEW v \in Nat, NEW u \in Nat, v <= u, JournalFile(J, v)
    PROVE  JournalFile(J, u)
  BY DEF JournalFile, IsBlock

\* A step of a statement, or one that starts a commit.
LEMMA StatementRight ==
    ASSUME WholeInv, setting' = setting, gone' = gone, faults' = faults, db'.safe = db.safe, jrnl'.safe = jrnl.safe,
           ver < MaxVersion, ver' = ver + 1,
           \/ pc' = Idle
           \/ DOMAIN pc' = {"at", "task", "page"} /\ pc'.at = "syncRecords" /\ pc'.task = "commit",
           Ready(pager', jrnl'.vis, db'.vis, jrnl'.safe, ver + 1),
           PagesOf(pager', db'.vis) <= pager'.dbSize, pager'.dbSize > 0
    PROVE  WholeInv'
<1>1. Sizes /\ ver \in Nat /\ MaxVersion \in Nat /\ faults \in Nat
  BY Bounds
<1>2. /\ JournalFile(jrnl.safe, ver') /\ JournalFile(gone.vis, ver') /\ JournalFile(gone.safe, ver')
      /\ DataFile(db.safe) /\ setting \in Settings
  BY <1>1, OlderBlocks DEF WholeInv, Basics
<1>3. Ready(pager', jrnl'.vis, db'.vis, jrnl'.safe, ver')
  BY <1>1
<1>4. JournalFile(jrnl'.vis, ver') /\ pager'.nonce <= ver'
  <2>1. pager'.nonce \in Nat
    BY <1>3 DEF Ready, PagerType
  <2>2. QED
    BY <1>1, <1>3, <2>1 DEF Ready
<1>5. ver' \in Nat /\ ver' <= MaxVersion /\ faults' \in Nat
  BY <1>1
<1>6. OwnRecords' => OwnRecords
  BY <1>1, CarriedOwn
<1>7. DOMAIN pc' = {"at", "task", "page"}
  BY DEF Idle
<1>8. QED
  BY <1>1, <1>2, <1>3, <1>4, <1>5, <1>6, <1>7, ReadyRight

\* sqlite3PagerWrite of a page keeps the invariant,
LEMMA ChangePageRight ==
    ASSUME WholeInv, ChangePage
    PROVE  WholeInv'
<1>1. /\ pc = Idle /\ pager.eState \in {"LOCKED", "CACHEMOD", "DBMOD"} /\ ver < MaxVersion /\ ver' = ver + 1
      /\ db' = db /\ gone' = gone /\ pc' = pc /\ faults' = faults /\ setting' = setting
  BY DEF ChangePage, InStatement, Fresh
<1>2. PICK p \in 1 .. nPage : Becomes(Written(Now, p, [v |-> ver, n |-> Content(p).n]))
  BY DEF ChangePage
<1> DEFINE d == [v |-> ver, n |-> Content(p).n]
           w == Written(Now, p, d)
<1>3. /\ Sizes /\ ver \in Nat /\ ver <= MaxVersion /\ faults \in Nat /\ MaxVersion \in Nat /\ Len(jrnl.safe) \in Nat
      /\ PagerType(pager) /\ DataFile(db.vis)
  BY Bounds DEF WholeInv, Basics
<1>4. /\ InWork(pager, jrnl.vis, db.vis, jrnl.safe)
      /\ PagesOf(pager, db.vis) <= pager.dbSize /\ pager.dbSize > 0
      /\ nPage = PagesOf(pager, db.vis) /\ nPage \in 0 .. MaxPages
  BY <1>1, WorkNow
<1>5. /\ p \in 1 .. MaxPages /\ p <= pager.dbSize + 1 /\ p \in Nat /\ p > 0 /\ pager.dbSize \in Nat
  BY <1>3, <1>4 DEF Sizes, PagerType
<1>6. d \in Page
  <2>1. Content(p) \in Page
    BY <1>3, <1>5, GetTyped DEF Content, PagerType
  <2>2. ver \in -2 .. MaxVersion
    BY <1>3
  <2>3. QED
    BY <2>1, <2>2 DEF Page
<1>7. p = 1 => d.n = PagesOf(pager, db.vis)
  BY DEF Content, PagesOf
<1> HIDE DEF d
<1>8. /\ Ready(w.g, w.J, db.vis, jrnl.safe, ver + 1)
      /\ w.g.dbSize = Bigger(pager.dbSize, p) /\ w.g.dbSize > 0
      /\ PagesOf(w.g, db.vis) = IF p = 1 THEN d.n ELSE PagesOf(pager, db.vis)
  <2>1. Now.g = pager /\ Now.J = jrnl.vis
    BY DEF Now
  <2>2. QED
    BY <1>3, <1>4, <1>5, <1>6, <2>1, WrittenReady
<1>9. pager' = w.g /\ jrnl'.vis = w.J /\ jrnl'.safe = jrnl.safe
  BY <1>2 DEF Becomes, Seen, d
<1> HIDE DEF w
<1>10. PagesOf(pager', db'.vis) <= pager'.dbSize /\ pager'.dbSize > 0
  <2>1. pager.dbSize <= Bigger(pager.dbSize, p) /\ Bigger(pager.dbSize, p) \in Nat
    BY <1>5, BiggerFacts
  <2>2. QED
    BY <1>1, <1>4, <1>5, <1>7, <1>8, <1>9, <2>1
<1>11. Ready(pager', jrnl'.vis, db'.vis, jrnl'.safe, ver + 1)
  BY <1>1, <1>8, <1>9
<1>12. QED
  BY <1>1, <1>9, <1>10, <1>11, StatementRight

\* so does that of a page behind the last one,
LEMMA AddPageRight ==
    ASSUME WholeInv, AddPage
    PROVE  WholeInv'
<1>1. /\ pc = Idle /\ pager.eState \in {"LOCKED", "CACHEMOD", "DBMOD"} /\ ver < MaxVersion /\ ver' = ver + 1
      /\ db' = db /\ gone' = gone /\ pc' = pc /\ faults' = faults /\ setting' = setting /\ nPage < MaxPages
  BY DEF AddPage, InStatement, Fresh
<1> DEFINE d == [v |-> ver, n |-> nPage + 1]
           e == [v |-> ver, n |-> 0]
           u == Written(Now, 1, d)
           w == Written(u, nPage + 1, e)
<1>2. pager' = w.g /\ jrnl'.vis = w.J /\ jrnl'.safe = jrnl.safe
  BY DEF AddPage, Becomes, Seen
<1>3. /\ Sizes /\ ver \in Nat /\ ver <= MaxVersion /\ faults \in Nat /\ MaxVersion \in Nat /\ Len(jrnl.safe) \in Nat
      /\ PagerType(pager) /\ DataFile(db.vis)
  BY Bounds DEF WholeInv, Basics
<1>4. /\ InWork(pager, jrnl.vis, db.vis, jrnl.safe)
      /\ PagesOf(pager, db.vis) <= pager.dbSize /\ pager.dbSize > 0
      /\ nPage = PagesOf(pager, db.vis) /\ nPage \in 0 .. MaxPages
  BY <1>1, WorkNow
<1>5. pager.dbSize \in Nat /\ 1 \in 1 .. MaxPages /\ 1 <= pager.dbSize + 1 /\ nPage + 1 \in 1 .. MaxPages
  BY <1>1, <1>3, <1>4 DEF Sizes, PagerType
<1>6. d \in Page /\ e \in Page
  <2>1. ver \in -2 .. MaxVersion /\ nPage + 1 \in 0 .. MaxPages /\ 0 \in 0 .. MaxPages
    BY <1>3, <1>5 DEF Sizes
  <2>2. QED
    BY <2>1 DEF Page
<1>7. d.n = nPage + 1 /\ e.n = 0
  OBVIOUS
<1> HIDE DEF d, e
<1>8. /\ Ready(u.g, u.J, db.vis, jrnl.safe, ver + 1) /\ u.g.eState # "LOCKED"
      /\ u.g.dbSize = Bigger(pager.dbSize, 1) /\ u.g.dbSize > 0
      /\ PagesOf(u.g, db.vis) = nPage + 1
  <2>1. Now.g = pager /\ Now.J = jrnl.vis
    BY DEF Now
  <2>2. /\ Ready(u.g, u.J, db.vis, jrnl.safe, ver + 1) /\ u.g.eState # "LOCKED"
        /\ u.g.dbSize = Bigger(pager.dbSize, 1) /\ u.g.dbSize > 0
        /\ PagesOf(u.g, db.vis) = IF 1 = 1 THEN d.n ELSE PagesOf(pager, db.vis)
    BY <1>3, <1>4, <1>5, <1>6, <2>1, WrittenReady
  <2>3. QED
    BY <1>7, <2>2
<1> HIDE DEF u
<1>9. nPage + 1 <= u.g.dbSize + 1 /\ u.g.dbSize \in Nat
  <2>1. pager.dbSize <= Bigger(pager.dbSize, 1) /\ Bigger(pager.dbSize, 1) \in Nat
    BY <1>5, BiggerFacts
  <2>2. QED
    BY <1>4, <1>5, <1>8, <2>1
<1>10. /\ Ready(w.g, w.J, db.vis, jrnl.safe, ver + 1)
       /\ w.g.dbSize = Bigger(u.g.dbSize, nPage + 1) /\ w.g.dbSize > 0
       /\ PagesOf(w.g, db.vis) = IF nPage + 1 = 1 THEN e.n ELSE PagesOf(u.g, db.vis)
  <2>1. InWork(u.g, u.J, db.vis, jrnl.safe)
    BY <1>8 DEF InWork
  <2> DEFINE p == nPage + 1
  <2>2. p \in 1 .. MaxPages /\ p <= u.g.dbSize + 1
    BY <1>5, <1>9
  <2> HIDE DEF p
  <2>3. LET x == Written(u, p, e)
        IN  /\ Ready(x.g, x.J, db.vis, jrnl.safe, ver + 1)
            /\ x.g.dbSize = Bigger(u.g.dbSize, p) /\ x.g.dbSize > 0
            /\ PagesOf(x.g, db.vis) = IF p = 1 THEN e.n ELSE PagesOf(u.g, db.vis)
    BY <1>3, <1>6, <2>1, <2>2, WrittenReady
  <2>4. QED
    BY <2>3 DEF p
<1> HIDE DEF w
<1>11. PagesOf(w.g, db.vis) <= w.g.dbSize /\ w.g.dbSize > 0
  <2>1. nPage + 1 <= Bigger(u.g.dbSize, nPage + 1) /\ Bigger(u.g.dbSize, nPage + 1) \in Nat /\ nPage + 1 \in Nat
    <3>1. nPage + 1 \in Nat
      BY <1>5, <1>3 DEF Sizes
    <3>2. QED
      BY <1>9, <3>1, BiggerFacts
  <2>2. QED
    BY <1>7, <1>8, <1>10, <2>1
<1>12. QED
  BY <1>1, <1>2, <1>10, <1>11, StatementRight

\* and the first step of sqlite3PagerCommitPhaseOne.
LEMMA CommitPhaseOneRight ==
    ASSUME WholeInv, CommitPhaseOne
    PROVE  WholeInv'
<1>1. /\ pc = Idle /\ db' = db /\ gone' = gone /\ faults' = faults /\ setting' = setting
  BY DEF CommitPhaseOne
<1>2. /\ Sizes /\ ver \in Nat /\ ver <= MaxVersion /\ faults \in Nat /\ MaxVersion \in Nat /\ Len(jrnl.safe) \in Nat
      /\ PagerType(pager) /\ DataFile(db.vis)
  BY Bounds DEF WholeInv, Basics
<1>3. CASE /\ pager.eState \in {"CACHEMOD", "DBMOD"} /\ ver < MaxVersion /\ ver' = ver + 1
           /\ Becomes(Written(Now, 1, [v |-> ver, n |-> nPage]))
           /\ pc' = At("syncRecords", "commit")
  <2> DEFINE d == [v |-> ver, n |-> nPage]
             w == Written(Now, 1, d)
  <2>1. /\ InWork(pager, jrnl.vis, db.vis, jrnl.safe)
        /\ PagesOf(pager, db.vis) <= pager.dbSize /\ pager.dbSize > 0
        /\ nPage = PagesOf(pager, db.vis) /\ nPage \in 0 .. MaxPages
    BY <1>1, <1>3, WorkNow
  <2>2. pager.dbSize \in Nat /\ 1 \in 1 .. MaxPages /\ 1 <= pager.dbSize + 1
    BY <1>2, <2>1 DEF Sizes, PagerType
  <2>3. d \in Page
    <3>1. ver \in -2 .. MaxVersion
      BY <1>2
    <3>2. QED
      BY <2>1, <3>1 DEF Page
  <2>4. d.n = nPage
    OBVIOUS
  <2>5. pager' = w.g /\ jrnl'.vis = w.J /\ jrnl'.safe = jrnl.safe
    BY <1>3 DEF Becomes, Seen
  <2> HIDE DEF d
  <2>6. /\ Ready(w.g, w.J, db.vis, jrnl.safe, ver + 1)
        /\ w.g.dbSize = Bigger(pager.dbSize, 1) /\ w.g.dbSize > 0
        /\ PagesOf(w.g, db.vis) = nPage
    <3>1. Now.g = pager /\ Now.J = jrnl.vis
      BY DEF Now
    <3>2. /\ Ready(w.g, w.J, db.vis, jrnl.safe, ver + 1)
          /\ w.g.dbSize = Bigger(pager.dbSize, 1) /\ w.g.dbSize > 0
          /\ PagesOf(w.g, db.vis) = IF 1 = 1 THEN d.n ELSE PagesOf(pager, db.vis)
      BY <1>2, <2>1, <2>2, <2>3, <3>1, WrittenReady
    <3>3. QED
      BY <2>4, <3>2
  <2> HIDE DEF w
  <2>7. PagesOf(w.g, db.vis) <= w.g.dbSize
    <3>1. pager.dbSize <= Bigger(pager.dbSize, 1) /\ Bigger(pager.dbSize, 1) \in Nat
      BY <2>2, BiggerFacts
    <3>2. QED
      BY <2>1, <2>2, <2>6, <3>1
  <2>8. DOMAIN pc' = {"at", "task", "page"} /\ pc'.at = "syncRecords" /\ pc'.task = "commit"
    BY <1>3 DEF At
  <2>9. QED
    BY <1>1, <1>3, <2>5, <2>6, <2>7, <2>8, StatementRight
<1>4. CASE pager.eState = "LOCKED" /\ pc' = At("finalize", "commit") /\ UNCHANGED <<pager, jrnl, ver>>
  <2>1. pager' = pager /\ jrnl' = jrnl /\ ver' = ver
    BY <1>4
  <2>2. OwnRecords' => OwnRecords
    BY <1>1, <1>2, CarriedOwn
  <2>3. DOMAIN pc' = {"at", "task", "page"} /\ pc'.at = "finalize" /\ pc'.task = "commit"
    BY <1>4 DEF At
  <2>4. Basics'
    <3>1. Basics
      BY DEF WholeInv
    <3>2. QED
      BY <1>1, <1>2, <2>1, <2>3, <3>1, BasicsRight DEF Basics
  <2>5. Flow'
    BY <1>4, <2>1, <2>3 DEF Flow
  <2>6. OpenRight' /\ ReaderRight' /\ WriterRight'
    BY <1>4, <2>1 DEF OpenRight, ReaderRight, WriterRight, Opened3
  <2>7. LockedRight'
    BY <1>1, <1>4, <2>1, <2>2, CarriedContent DEF WholeInv, LockedRight
  <2>8. QED
    BY <2>4, <2>5, <2>6, <2>7 DEF WholeInv
<1>5. QED
  <2>1. CommitPhaseOne =>
            \/ /\ pager.eState \in {"CACHEMOD", "DBMOD"} /\ ver < MaxVersion /\ ver' = ver + 1
               /\ Becomes(Written(Now, 1, [v |-> ver, n |-> nPage]))
               /\ pc' = At("syncRecords", "commit")
            \/ pager.eState = "LOCKED" /\ pc' = At("finalize", "commit") /\ UNCHANGED <<pager, jrnl, ver>>
    BY DEF CommitPhaseOne, Fresh
  <2>2. QED
    BY <1>3, <1>4, <2>1

(***************************************************************************)
(* Steps that leave the journal of a ready pager alone.                    *)
(***************************************************************************)
SameCore(g, w) ==
    /\ w.eState = g.eState /\ w.jfd = g.jfd /\ w.dbOrigSize = g.dbOrigSize
    /\ w.nRec = g.nRec /\ w.journalOff = g.journalOff /\ w.journalHdr = g.journalHdr /\ w.header = g.header
    /\ w.nonce = g.nonce /\ w.pInJournal = g.pInJournal

\* A pager that differs in its savepoints has the same records.
LEMMA SameCoreFacts ==
    ASSUME NEW g, NEW w, SameCore(g, w)
    PROVE  /\ LastOf(w) = LastOf(g) /\ \A J : Records(w, J) = Records(g, J)
           /\ \A J : Layout(g, J) => Layout(w, J)
           /\ \A J : RecordsRight(g, J) => RecordsRight(w, J)
           /\ \A J, safe : SyncedRight(g, J, safe) => SyncedRight(w, J, safe)
<1>1. LastOf(w) = LastOf(g)
  BY DEF SameCore, LastOf
<1>2. \A J : Records(w, J) = Records(g, J)
  BY <1>1 DEF Records
<1>3. \A J : InProgressRight(g, J) => InProgressRight(w, J)
  BY <1>1 DEF InProgressRight, SameCore
<1>4. \A J : Layout(g, J) => Layout(w, J)
  BY <1>1, <1>3 DEF Layout, SameCore
<1>5. \A J : RecordsRight(g, J) => RecordsRight(w, J)
  BY <1>2 DEF RecordsRight, SameCore
<1>6. \A J, safe : SyncedRight(g, J, safe) => SyncedRight(w, J, safe)
  BY DEF SyncedRight, SameCore
<1>7. QED
  BY <1>1, <1>2, <1>4, <1>5, <1>6

\* Only the savepoints and the sub-journal change.
LEMMA OtherSaves ==
    ASSUME NEW g, NEW w, NEW J, NEW f, NEW safe, NEW v, Ready(g, J, f, safe, v), SameCore(g, w), PagerType(w),
           w.cache = g.cache, w.dbSize = g.dbSize, w.dbFileSize = g.dbFileSize,
           SubRight(w), \A i \in 1 .. Len(w.aSavepoint) : SaveRight(w, J, f, w.aSavepoint[i]), Nested(w.aSavepoint)
    PROVE  Ready(w, J, f, safe, v) /\ PagesOf(w, f) = PagesOf(g, f)
<1>1. PagesOf(w, f) = PagesOf(g, f)
  BY DEF PagesOf
<1>2. /\ LastOf(w) = LastOf(g) /\ Records(w, J) = Records(g, J)
      /\ Layout(w, J) /\ RecordsRight(w, J) /\ SyncedRight(w, J, safe)
  BY SameCoreFacts DEF Ready
<1>3. CacheRight(w, J, f)
  BY <1>2 DEF Ready, CacheRight, SameCore
<1>4. OwnRecords => ContentRight(w, J, f)
  BY <1>2 DEF Ready, ContentRight, SameCore
<1>5. SavesRight(w, J, f)
  BY <1>1 DEF Ready, SavesRight, SameCore
<1>6. QED
  BY <1>1, <1>2, <1>3, <1>4, <1>5 DEF Ready, SameCore

\* The first n savepoints.
LEMMA FirstSaves ==
    ASSUME NEW saves \in Seq(Save), NEW n \in 0 .. Len(saves)
    PROVE  /\ SubSeq(saves, 1, n) \in Seq(Save) /\ Len(SubSeq(saves, 1, n)) = n
           /\ \A i \in 1 .. n : SubSeq(saves, 1, n)[i] = saves[i]
           /\ n = 0 => SubSeq(saves, 1, n) = <<>>
  OBVIOUS

\* Without its last savepoints a pager is still ready.
LEMMA FewerSaves ==
    ASSUME NEW g, NEW w, NEW J, NEW f, NEW safe, NEW v, Ready(g, J, f, safe, v), SameCore(g, w), DOMAIN w = Fields,
           w.cache = g.cache, w.dbSize = g.dbSize, w.dbFileSize = g.dbFileSize,
           NEW n \in 0 .. Len(g.aSavepoint), w.aSavepoint = SubSeq(g.aSavepoint, 1, n),
           w.sub = g.sub \/ (n = 0 /\ w.sub = <<>>)
    PROVE  Ready(w, J, f, safe, v) /\ PagesOf(w, f) = PagesOf(g, f)
<1>1. PagerType(g) /\ SavesRight(g, J, f)
  BY DEF Ready
<1>2. g.aSavepoint \in Seq(Save) /\ g.sub \in Seq(Entry) /\ \A i \in 1 .. Len(g.aSavepoint) : g.aSavepoint[i].iSubRec <= Len(g.sub)
  BY <1>1 DEF PagerType
<1>3. /\ w.aSavepoint \in Seq(Save) /\ Len(w.aSavepoint) = n
      /\ \A i \in 1 .. n : w.aSavepoint[i] = g.aSavepoint[i] /\ i \in 1 .. Len(g.aSavepoint)
  BY <1>2, FirstSaves
<1>4. w.sub \in Seq(Entry) /\ \A i \in 1 .. Len(w.aSavepoint) : w.aSavepoint[i].iSubRec <= Len(w.sub)
  BY <1>2, <1>3
<1>5. PagerType(w)
  BY <1>1, <1>3, <1>4 DEF PagerType, SameCore
<1>6. SubRight(w)
  BY <1>1 DEF SavesRight, SubRight, SameCore
<1>7. ASSUME NEW i \in 1 .. Len(w.aSavepoint) PROVE SaveRight(w, J, f, w.aSavepoint[i])
  <2> DEFINE sp == w.aSavepoint[i]
  <2>1. sp = g.aSavepoint[i] /\ i \in 1 .. Len(g.aSavepoint) /\ n > 0
    BY <1>3
  <2>2. SaveRight(g, J, f, sp)
    BY <1>1, <2>1 DEF SavesRight
  <2> HIDE DEF sp
  <2>3. w.sub = g.sub
    BY <2>1
  <2>4. LastOf(w) = LastOf(g) /\ Records(w, J) = Records(g, J)
    BY SameCoreFacts
  <2>5. PagesOf(w, f) = PagesOf(g, f)
    BY DEF PagesOf
  <2>6. MainOne(w, J, sp) = MainOne(g, J, sp) /\ SubOne(w, sp) = SubOne(g, sp)
    BY <2>3, <2>4 DEF MainOne, SubOne
  <2>7. FirstOne(w, J, f, sp)
    BY <2>2, <2>3, <2>5, <2>6 DEF FirstOne, SaveRight
  <2>8. SaveRight(w, J, f, sp)
    BY <2>2, <2>4, <2>7 DEF SaveRight, SameCore
  <2>9. QED
    BY <2>8 DEF sp
<1>8. Nested(w.aSavepoint)
  BY <1>1, <1>3 DEF SavesRight, Nested
<1>9. QED
  BY <1>5, <1>6, <1>7, <1>8, OtherSaves

\* A step of a ready pager that writes nothing to the journal.
LEMMA QuietRight ==
    ASSUME WholeInv, setting' = setting, gone' = gone, faults' = faults, ver' = ver, jrnl' = jrnl, db'.safe = db.safe,
           \/ pc' = Idle
           \/ /\ DOMAIN pc' = {"at", "task", "page"} /\ pc'.at = "syncRecords" /\ pc'.task \in {"spill", "commit"}
              /\ pc'.task = "spill" => pc'.page \in DOMAIN pager'.cache
           \/ /\ DOMAIN pc' = {"at", "task", "page"} /\ pc'.at = "writePages" /\ pc'.task = "spill"
              /\ pager'.eState = "DBMOD"
              /\ pc'.page \in DOMAIN pager'.cache /\ ~pager'.cache[pc'.page].sync,
           Ready(pager', jrnl.vis, db'.vis, jrnl.safe, ver + 1), pager'.nonce = pager.nonce,
           PagesOf(pager', db'.vis) <= pager'.dbSize, pager'.dbSize > 0
    PROVE  WholeInv'
<1>1. Sizes /\ ver \in Nat /\ ver <= MaxVersion /\ faults \in Nat
  BY Bounds
<1>2. /\ JournalFile(jrnl.vis, ver) /\ JournalFile(jrnl.safe, ver) /\ JournalFile(gone.vis, ver)
      /\ JournalFile(gone.safe, ver)
      /\ DataFile(db.safe) /\ setting \in Settings /\ pager.nonce <= ver
  BY DEF WholeInv, Basics
<1>3. OwnRecords' => OwnRecords
  BY <1>1, CarriedOwn
<1>4. DOMAIN pc' = {"at", "task", "page"}
  BY DEF Idle
<1>5. Ready(pager', jrnl'.vis, db'.vis, jrnl'.safe, ver + 1)
  BY <1>1
<1>6. QED
  BY <1>1, <1>2, <1>3, <1>4, <1>5, ReadyRight

\* Between two calls of a statement the pager is ready.
LEMMA ReadyNow ==
    ASSUME WholeInv, pc = Idle, pager.eState \in {"CACHEMOD", "DBMOD"}
    PROVE  /\ Ready(pager, jrnl.vis, db.vis, jrnl.safe, ver + 1)
           /\ PagesOf(pager, db.vis) <= pager.dbSize /\ pager.dbSize > 0
  BY WorkNow DEF InWork, Start

\* pagerOpenSavepoint keeps the invariant.
LEMMA OpenSavepointRight ==
    ASSUME WholeInv, OpenSavepoint
    PROVE  WholeInv'
<1> DEFINE sp == [nOrig |-> pager.dbSize, iHdrOffset |-> 0, iSubRec |-> Len(pager.sub), inSavepoint |-> {},
                  iOffset |-> IF pager.jfd /\ pager.journalOff > 0 THEN pager.journalOff ELSE 1]
           saves == Append(pager.aSavepoint, sp)
           w == [pager EXCEPT !.aSavepoint = saves]
<1>1. /\ pc = Idle /\ pager.eState \in {"LOCKED", "CACHEMOD", "DBMOD"}
      /\ pager' = w /\ db' = db /\ jrnl' = jrnl /\ gone' = gone /\ pc' = pc /\ ver' = ver /\ faults' = faults
      /\ setting' = setting
  BY DEF OpenSavepoint
<1>2. /\ Sizes /\ ver \in Nat /\ ver <= MaxVersion /\ faults \in Nat /\ DOMAIN pager = Fields /\ PagerType(pager)
  BY Bounds
<1>3. /\ pager.aSavepoint \in Seq(Save) /\ pager.sub \in Seq(Entry) /\ Len(pager.sub) \in Nat
      /\ pager.dbSize \in 0 .. MaxPages /\ pager.journalOff \in Nat
      /\ \A i \in 1 .. Len(pager.aSavepoint) : pager.aSavepoint[i].iSubRec <= Len(pager.sub)
  BY <1>2 DEF PagerType
<1>4. sp \in Save
  <2>1. (IF pager.jfd /\ pager.journalOff > 0 THEN pager.journalOff ELSE 1) \in Nat
    BY <1>3
  <2>2. QED
    BY <1>3, <2>1 DEF Save
<1>5. /\ sp.nOrig = pager.dbSize /\ sp.iHdrOffset = 0 /\ sp.iSubRec = Len(pager.sub) /\ sp.inSavepoint = {}
      /\ sp.iOffset = IF pager.jfd /\ pager.journalOff > 0 THEN pager.journalOff ELSE 1
  OBVIOUS
<1> HIDE DEF sp
<1> DEFINE n == Len(pager.aSavepoint)
<1>6. /\ saves \in Seq(Save) /\ Len(saves) = n + 1 /\ n \in Nat /\ saves[n + 1] = sp
      /\ \A i \in 1 .. n : saves[i] = pager.aSavepoint[i]
      /\ \A i \in 1 .. n + 1 : i = n + 1 \/ i \in 1 .. n
  BY <1>3, <1>4
<1> HIDE DEF n, saves
<1>7. /\ DOMAIN w = Fields /\ SameCore(pager, w) /\ w.cache = pager.cache /\ w.dbSize = pager.dbSize
      /\ w.dbFileSize = pager.dbFileSize /\ w.sub = pager.sub /\ w.aSavepoint = saves
  BY <1>2 DEF Fields, SameCore
<1> HIDE DEF w
<1>8. PagerType(w)
  <2>1. \A i \in 1 .. Len(saves) : saves[i].iSubRec <= Len(pager.sub)
    <3>1. sp.iSubRec <= Len(pager.sub)
      BY <1>3, <1>5
    <3>2. QED
      BY <1>3, <1>6, <3>1 DEF n
  <2>2. QED
    BY <1>2, <1>6, <1>7, <2>1 DEF PagerType, SameCore
<1>9. CASE pager.eState = "LOCKED"
  <2>1. Begun(pager, jrnl.vis, db.vis) /\ pager.dbSize > 0
    BY <1>9 DEF WholeInv, LockedRight
  <2>2. SavesFresh(w)
    <3>1. /\ sp.nOrig = w.dbSize /\ sp.iHdrOffset = 0 /\ sp.iOffset = 1 /\ sp.iSubRec = 0 /\ sp.inSavepoint = {}
      BY <1>5, <1>7, <2>1 DEF Begun
    <3>2. \A i \in 1 .. n : saves[i].nOrig = w.dbSize /\ saves[i].iHdrOffset = 0 /\ saves[i].iOffset = 1
                            /\ saves[i].iSubRec = 0 /\ saves[i].inSavepoint = {}
      BY <1>6, <1>7, <2>1 DEF Begun, SavesFresh, n
    <3>3. QED
      BY <1>6, <1>7, <3>1, <3>2 DEF SavesFresh
  <2>3. Begun(w, jrnl.vis, db.vis)
    <3>1. Reliable(w, db.vis) /\ PagesOf(w, db.vis) = PagesOf(pager, db.vis)
      BY <1>7, <2>1 DEF Begun, Reliable, PagesOf
    <3>2. QED
      BY <1>7, <2>1, <2>2, <3>1 DEF Begun, SameCore
  <2>4. OwnRecords' => OwnRecords
    BY <1>1, <1>2, CarriedOwn
  <2>5. Basics'
    BY <1>1, <1>2, <1>7, <1>8, BasicsRight DEF WholeInv, Basics, SameCore
  <2>6. w.eState = "LOCKED"
    BY <1>7, <1>9 DEF SameCore
  <2>7. Flow'
    BY <1>1, <2>6 DEF Flow
  <2>8. OpenRight' /\ ReaderRight' /\ WriterRight'
    BY <1>1, <2>6 DEF OpenRight, ReaderRight, WriterRight, Opened3
  <2>9. LockedRight'
    BY <1>1, <1>7, <2>1, <2>3, <2>4, CarriedContent DEF LockedRight
  <2>10. QED
    BY <2>5, <2>7, <2>8, <2>9 DEF WholeInv
<1>10. CASE pager.eState \in {"CACHEMOD", "DBMOD"}
  <2> DEFINE J == jrnl.vis
             f == db.vis
  <2>1. Ready(pager, J, f, jrnl.safe, ver + 1) /\ PagesOf(pager, f) <= pager.dbSize /\ pager.dbSize > 0
    BY <1>1, <1>10, ReadyNow
  <2>2. /\ pager.jfd = TRUE /\ pager.journalOff > 0 /\ pager.journalOff = LastOf(pager) /\ LastOf(pager) \in Nat
        /\ LastOf(pager) = pager.journalHdr + 1 + pager.nRec /\ pager.journalHdr \in Nat /\ pager.nRec \in Nat
    BY <2>1, ReadyEnd DEF Ready, Layout
  <2>3. sp.iOffset = LastOf(pager)
    BY <1>5, <2>2
  <2>4. SavesRight(pager, J, f) /\ CacheRight(pager, J, f)
    BY <2>1 DEF Ready
  <2>5. SubRight(w)
    BY <1>7, <2>4 DEF SavesRight, SubRight, SameCore
  <2>6. LastOf(w) = LastOf(pager) /\ Records(w, J) = Records(pager, J)
    BY <1>7, SameCoreFacts
  <2>7. PagesOf(w, f) = PagesOf(pager, f)
    BY <1>7 DEF PagesOf
  <2>8. \A x : MainOne(w, J, x) = MainOne(pager, J, x) /\ SubOne(w, x) = SubOne(pager, x)
    BY <1>7, <2>6 DEF MainOne, SubOne
  <2>9. \A i \in 1 .. n : SaveRight(pager, J, f, saves[i])
    BY <1>6, <2>4 DEF SavesRight, n
  <2> HIDE DEF J, f
  <2>10. ASSUME NEW x, SaveRight(pager, J, f, x) PROVE SaveRight(w, J, f, x)
    <3>1. FirstOne(w, J, f, x)
      BY <1>7, <2>7, <2>8, <2>10 DEF FirstOne, SaveRight
    <3>2. QED
      BY <1>7, <2>6, <2>10, <3>1 DEF SaveRight, SameCore
  <2>11. SaveRight(pager, J, f, sp)
    <3>1. MainOne(pager, J, sp) = {}
      <4>1. \A b \in Records(pager, J) : b <= LastOf(pager) /\ b \in Nat
        BY <2>2 DEF Records, RecordsIn
      <4>2. QED
        BY <2>2, <2>3, <4>1 DEF MainOne
    <3>2. SubOne(pager, sp) = {}
      BY <1>3, <1>5 DEF SubOne
    <3>3. FirstOne(pager, J, f, sp)
      BY <1>5, <2>1, <3>1, <3>2 DEF FirstOne
    <3>4. pager.dbOrigSize <= pager.dbSize
      BY <2>4 DEF CacheRight
    <3>5. QED
      BY <1>3, <1>5, <2>1, <2>2, <2>3, <3>3, <3>4 DEF SaveRight
  <2>12. \A i \in 1 .. Len(w.aSavepoint) : SaveRight(w, J, f, w.aSavepoint[i])
    BY <1>6, <1>7, <2>9, <2>10, <2>11
  <2>13. Nested(saves)
    <3>1. \A i \in 1 .. n : saves[i].nOrig <= sp.nOrig /\ saves[i].iOffset <= sp.iOffset /\ saves[i].iSubRec <= sp.iSubRec
      BY <1>3, <1>5, <1>6, <2>3, <2>9 DEF SaveRight, n
    <3>2. sp.nOrig <= sp.nOrig /\ sp.iOffset <= sp.iOffset /\ sp.iSubRec <= sp.iSubRec
      BY <1>3, <1>5, <2>2, <2>3
    <3>3. \A i, j \in 1 .. n : i <= j => /\ saves[i].nOrig <= saves[j].nOrig /\ saves[i].iOffset <= saves[j].iOffset
                                         /\ saves[i].iSubRec <= saves[j].iSubRec
      BY <1>6, <2>4 DEF SavesRight, Nested, n
    <3>4. \A i, j \in 1 .. n + 1 : i <= j => j = n + 1 \/ (i \in 1 .. n /\ j \in 1 .. n)
      BY <1>6
    <3>5. QED
      BY <1>6, <3>1, <3>2, <3>3, <3>4 DEF Nested
  <2>14. Ready(w, J, f, jrnl.safe, ver + 1) /\ PagesOf(w, f) = PagesOf(pager, f)
    BY <1>7, <1>8, <2>1, <2>5, <2>12, <2>13, OtherSaves
  <2>15. pager'.nonce = pager.nonce
    BY <1>1, <1>7 DEF SameCore
  <2>16. QED
    BY <1>1, <1>7, <2>1, <2>14, <2>15, QuietRight DEF J, f
<1>11. QED
  BY <1>1, <1>9, <1>10

\* The release of a savepoint keeps the invariant,
LEMMA ReleaseRight ==
    ASSUME WholeInv, Release
    PROVE  WholeInv'
<1>1. PICK n \in 0 .. Len(pager.aSavepoint) - 1 :
          pager' = [pager EXCEPT !.aSavepoint = SubSeq(@, 1, n), !.sub = IF n = 0 THEN <<>> ELSE @]
  BY DEF Release
<1> DEFINE w == [pager EXCEPT !.aSavepoint = SubSeq(@, 1, n), !.sub = IF n = 0 THEN <<>> ELSE @]
<1>2. /\ pc = Idle /\ pager.eState \in Writer
      /\ pager' = w /\ db' = db /\ jrnl' = jrnl /\ gone' = gone /\ pc' = pc /\ ver' = ver /\ faults' = faults
      /\ setting' = setting
  BY <1>1 DEF Release
<1>3. /\ Sizes /\ ver \in Nat /\ ver <= MaxVersion /\ faults \in Nat /\ DOMAIN pager = Fields /\ PagerType(pager)
  BY Bounds
<1>4. pager.aSavepoint \in Seq(Save) /\ n \in 0 .. Len(pager.aSavepoint)
  BY <1>3 DEF PagerType
<1>5. /\ DOMAIN w = Fields /\ SameCore(pager, w) /\ w.cache = pager.cache /\ w.dbSize = pager.dbSize
      /\ w.dbFileSize = pager.dbFileSize /\ w.aSavepoint = SubSeq(pager.aSavepoint, 1, n)
      /\ w.sub = pager.sub \/ (n = 0 /\ w.sub = <<>>)
  BY <1>3 DEF Fields, SameCore
<1> HIDE DEF w
<1>6. CASE pager.eState = "LOCKED"
  <2>1. Begun(pager, jrnl.vis, db.vis) /\ pager.dbSize > 0
    BY <1>6 DEF WholeInv, LockedRight
  <2>2. /\ w.aSavepoint \in Seq(Save) /\ Len(w.aSavepoint) = n
        /\ \A i \in 1 .. n : w.aSavepoint[i] = pager.aSavepoint[i] /\ i \in 1 .. Len(pager.aSavepoint)
    BY <1>4, <1>5, FirstSaves
  <2>3. w.sub = <<>> /\ w.sub = pager.sub
    BY <1>5, <2>1 DEF Begun
  <2>4. SavesFresh(w)
    BY <1>5, <2>1, <2>2 DEF Begun, SavesFresh
  <2>5. Begun(w, jrnl.vis, db.vis)
    <3>1. Reliable(w, db.vis) /\ PagesOf(w, db.vis) = PagesOf(pager, db.vis)
      BY <1>5, <2>1 DEF Begun, Reliable, PagesOf
    <3>2. QED
      BY <1>5, <2>1, <2>3, <2>4, <3>1 DEF Begun, SameCore
  <2>6. PagerType(w)
    <3>1. \A i \in 1 .. Len(w.aSavepoint) : w.aSavepoint[i].iSubRec <= Len(w.sub)
      BY <1>3, <2>2, <2>3 DEF PagerType
    <3>2. w.sub \in Seq(Entry)
      BY <1>3, <2>3 DEF PagerType
    <3>3. QED
      BY <1>3, <1>5, <2>2, <3>1, <3>2 DEF PagerType, SameCore
  <2>7. OwnRecords' => OwnRecords
    BY <1>2, <1>3, CarriedOwn
  <2>8. Basics'
    BY <1>2, <1>3, <1>5, <2>6, BasicsRight DEF WholeInv, Basics, SameCore
  <2>9. w.eState = "LOCKED"
    BY <1>5, <1>6 DEF SameCore
  <2>10. Flow' /\ OpenRight' /\ ReaderRight' /\ WriterRight'
    BY <1>2, <2>9 DEF Flow, OpenRight, ReaderRight, WriterRight, Opened3
  <2>11. LockedRight'
    BY <1>2, <1>5, <2>1, <2>5, <2>7, CarriedContent DEF LockedRight
  <2>12. QED
    BY <2>8, <2>10, <2>11 DEF WholeInv
<1>7. CASE pager.eState \in {"CACHEMOD", "DBMOD"}
  <2>1. /\ Ready(pager, jrnl.vis, db.vis, jrnl.safe, ver + 1)
        /\ PagesOf(pager, db.vis) <= pager.dbSize /\ pager.dbSize > 0
    BY <1>2, <1>7, ReadyNow
  <2>2. Ready(w, jrnl.vis, db.vis, jrnl.safe, ver + 1) /\ PagesOf(w, db.vis) = PagesOf(pager, db.vis)
    <3> DEFINE J == jrnl.vis
               f == db.vis
               safe == jrnl.safe
               v == ver + 1
    <3>1. Ready(pager, J, f, safe, v)
      BY <2>1
    <3> HIDE DEF J, f, safe, v
    <3>2. Ready(w, J, f, safe, v) /\ PagesOf(w, f) = PagesOf(pager, f)
      BY <1>4, <1>5, <3>1, FewerSaves
    <3>3. QED
      BY <3>2 DEF J, f, safe, v
  <2>3. w.nonce = pager.nonce
    BY <1>5 DEF SameCore
  <2>4. QED
    BY <1>2, <1>5, <2>1, <2>2, <2>3, QuietRight
<1>8. QED
  <2>1. pc.at = "idle" /\ pc.task = "none"
    BY <1>2 DEF Idle
  <2>2. pager.eState # "FINISHED"
    BY <2>1 DEF WholeInv, Flow
  <2>3. QED
    BY <1>2, <1>6, <1>7, <2>2 DEF Writer

\* so does the start of a spill,
LEMMA SpillRight ==
    ASSUME WholeInv, Spill
    PROVE  WholeInv'
<1>1. PICK p \in Dirty :
          pc' = [at |-> IF pager.cache[p].sync \/ pager.eState = "CACHEMOD" THEN "syncRecords" ELSE "writePages",
                 task |-> "spill", page |-> p]
  BY DEF Spill
<1>2. /\ pc = Idle /\ pager.eState \in {"CACHEMOD", "DBMOD"}
      /\ pager' = pager /\ db' = db /\ jrnl' = jrnl /\ gone' = gone /\ ver' = ver /\ faults' = faults
      /\ setting' = setting
  BY DEF Spill
<1>3. /\ Ready(pager, jrnl.vis, db.vis, jrnl.safe, ver + 1)
      /\ PagesOf(pager, db.vis) <= pager.dbSize /\ pager.dbSize > 0
  BY <1>2, ReadyNow
<1>4. DOMAIN pc' = {"at", "task", "page"} /\ pc'.task = "spill" /\ pc'.page = p
  BY <1>1
<1>5. \/ pc'.at = "syncRecords"
      \/ pc'.at = "writePages" /\ ~pager.cache[p].sync /\ pager.eState = "DBMOD"
  BY <1>1, <1>2
<1>6. p \in DOMAIN pager.cache
  BY DEF Dirty
<1>7. QED
  BY <1>2, <1>3, <1>4, <1>5, <1>6, QuietRight

\* and the start of a roll back.
LEMMA RollbackRight ==
    ASSUME WholeInv, Rollback
    PROVE  WholeInv'
<1>1. /\ pc = Idle \/ pc.at = "mustRollBack"
      /\ pager.eState \in {"LOCKED", "CACHEMOD", "DBMOD"}
      /\ pc' = At(IF pager.eState = "LOCKED" THEN "finalize" ELSE "playback", "rollback")
      /\ pager' = pager /\ db' = db /\ jrnl' = jrnl /\ gone' = gone /\ ver' = ver /\ faults' = faults
      /\ setting' = setting
  BY DEF Rollback
<1>2. /\ Sizes /\ ver \in Nat /\ ver <= MaxVersion /\ faults \in Nat
  BY Bounds
<1>3. OwnRecords' => OwnRecords
  BY <1>1, <1>2, CarriedOwn
<1>4. DOMAIN pc' = {"at", "task", "page"} /\ pc'.task = "rollback"
      /\ pc'.at = IF pager.eState = "LOCKED" THEN "finalize" ELSE "playback"
  BY <1>1 DEF At
<1>5. Basics'
  BY <1>1, <1>2, <1>4, BasicsRight DEF WholeInv, Basics
<1>6. Flow'
  BY <1>1, <1>4 DEF Flow
<1>7. OpenRight' /\ ReaderRight'
  BY <1>1 DEF OpenRight, ReaderRight
<1>8. LockedRight'
  BY <1>1, <1>3, CarriedContent DEF WholeInv, LockedRight
<1>9. WriterRight'
  <2> SUFFICES ASSUME pager.eState \in {"CACHEMOD", "DBMOD"} PROVE WriterRight'
    BY <1>1 DEF WriterRight, Opened3
  <2>1. /\ Layout(pager, jrnl.vis) /\ RecordsRight(pager, jrnl.vis) /\ SyncedRight(pager, jrnl.vis, jrnl.safe)
        /\ CacheRight(pager, jrnl.vis, db.vis) /\ (OwnRecords => ContentRight(pager, jrnl.vis, db.vis))
        /\ Stage
    BY DEF WholeInv, WriterRight, Opened3
  <2>2. pc'.at = "playback"
    BY <1>4
  <2>3. pc.at = "idle" \/ pc.at = "mustRollBack"
    BY <1>1 DEF Idle
  <2>4. pager.header = 0 => faults > 0
    <3>1. pc.task # "commit" /\ pc.task # "rollback"
      BY <2>3, <1>1 DEF WholeInv, Flow, Idle
    <3>2. QED
      BY <2>1, <3>1 DEF Stage
  <2>5. pager.header # 0 =>
            LET J == jrnl.vis  i == pager.journalHdr + 1
            IN  \/ ~J[i].magic /\ J[i].n = 0
                \/ J[i].magic /\ J[i].n = pager.nRec /\ ~MagicAt(J, LastOf(pager) + 1)
    BY <2>1 DEF Stage
  <2>6. Stage'
    BY <1>1, <1>4, <2>2, <2>4, <2>5 DEF Stage
  <2>7. QED
    BY <1>1, <1>3, <1>4, <2>1, <2>6 DEF WriterRight
<1>10. QED
  BY <1>5, <1>6, <1>7, <1>8, <1>9 DEF WholeInv

\* A pager that only holds its cache.
LEMMA OpenedType ==
    ASSUME Sizes, NEW c, CacheType(c)
    PROVE  PagerType([Opened EXCEPT !.cache = c])
<1> DEFINE w == [Opened EXCEPT !.cache = c]
<1>1. /\ DOMAIN w = Fields /\ w.eState = "OPEN" /\ w.jfd = FALSE /\ w.dbSize = 0 /\ w.dbOrigSize = 0
      /\ w.dbFileSize = 0 /\ w.nRec = 0 /\ w.journalOff = 0 /\ w.journalHdr = 0 /\ w.header = 0 /\ w.nonce = 0
      /\ w.pInJournal = {} /\ w.aSavepoint = <<>> /\ w.sub = <<>> /\ w.cache = c
  BY DEF Opened, Fields
<1> HIDE DEF w
<1>2. w.sub \in Seq(Entry) /\ w.aSavepoint \in Seq(Save) /\ Len(w.aSavepoint) = 0
  BY <1>1
<1>3. 0 \in 0 .. MaxPages /\ {} \subseteq 1 .. 0
  BY DEF Sizes
<1>4. \A i \in 1 .. Len(w.aSavepoint) : w.aSavepoint[i].iSubRec <= Len(w.sub)
  BY <1>2
<1>5. PagerType(w)
  <2>1. w.eState \in {"OPEN", "READER", "ERROR"} \cup Writer /\ w.jfd \in BOOLEAN
    BY <1>1
  <2>2. w.pInJournal \subseteq 1 .. w.dbOrigSize /\ CacheType(w.cache)
    BY <1>1
  <2>3. QED
    BY <1>1, <1>2, <1>3, <1>4, <2>1, <2>2 DEF PagerType
<1>6. QED
  BY <1>5 DEF w

\* What pager_unlock leaves of the pager.
LEMMA UnlockedFacts ==
    ASSUME Sizes, NEW g, PagerType(g)
    PROVE  LET w == Unlocked(g)
           IN  /\ PagerType(w) /\ w.eState = "OPEN" /\ w.nonce = 0 /\ w.pInJournal = {} /\ w.sub = <<>> /\ w.header = 0
               /\ w.aSavepoint = <<>> /\ w.jfd = FALSE
               /\ w.cache = IF g.eState = "ERROR" THEN <<>> ELSE g.cache
<1> DEFINE c == IF g.eState = "ERROR" THEN <<>> ELSE g.cache
<1>1. CacheType(c)
  <2>1. CASE g.eState = "ERROR"
    <3>1. DOMAIN c = {}
      BY <2>1
    <3>2. QED
      BY <3>1 DEF CacheType
  <2>2. QED
    BY <2>1 DEF PagerType
<1>2. Unlocked(g) = [Opened EXCEPT !.cache = c]
  BY DEF Unlocked
<1> HIDE DEF c
<1>3. PagerType(Unlocked(g))
  BY <1>1, <1>2, OpenedType
<1>4. QED
  BY <1>2, <1>3 DEF Opened, c

\* pager_unlock keeps the invariant.
LEMMA UnlockRight ==
    ASSUME WholeInv, Unlock
    PROVE  WholeInv'
<1>1. /\ pc = Idle /\ pager.eState \in {"READER", "ERROR"} /\ pager' = Unlocked(pager)
      /\ db' = db /\ jrnl' = jrnl /\ gone' = gone /\ pc' = pc /\ ver' = ver /\ faults' = faults /\ setting' = setting
  BY DEF Unlock
<1>2. /\ Sizes /\ ver \in Nat /\ ver <= MaxVersion /\ faults \in Nat /\ PagerType(pager)
  BY Bounds
<1>3. OwnRecords' => OwnRecords
  BY <1>1, <1>2, CarriedOwn
<1>4. /\ PagerType(pager') /\ pager'.eState = "OPEN" /\ pager'.nonce = 0 /\ pager'.pInJournal = {} /\ pager'.sub = <<>>
      /\ pager'.header = 0 /\ pager'.aSavepoint = <<>>
      /\ pager'.cache = IF pager.eState = "ERROR" THEN <<>> ELSE pager.cache
  BY <1>1, <1>2, UnlockedFacts
<1>5. Basics'
  BY <1>1, <1>2, <1>4, BasicsRight DEF WholeInv, Basics
<1>6. Flow' /\ ReaderRight' /\ LockedRight' /\ WriterRight'
  BY <1>1, <1>4 DEF Flow, ReaderRight, LockedRight, WriterRight, Opened3
<1>7. OpenRight'
  <2>1. pc.task = "none" /\ pc.at = "idle"
    BY <1>1 DEF Idle
  <2>2. CASE pager.eState = "ERROR"
    <3>1. DOMAIN pager'.cache = {}
      BY <1>4, <2>2
    <3>2. QED
      BY <1>1, <1>4, <2>1, <3>1 DEF OpenRight, Reliable
  <2>3. CASE pager.eState = "READER"
    <3>1. ~MagicAt(jrnl.vis, 1) /\ Reliable(pager, db.vis) /\ pager'.cache = pager.cache
      BY <1>4, <2>3 DEF WholeInv, ReaderRight
    <3>2. Reliable(pager', db.vis)
      BY <3>1 DEF Reliable
    <3>3. QED
      BY <1>1, <1>3, <1>4, <2>1, <3>1, <3>2, CarriedContent DEF OpenRight
  <2>4. QED
    BY <1>1, <2>2, <2>3
<1>8. QED
  BY <1>5, <1>6, <1>7 DEF WholeInv

\* sqlite3PagerBegin keeps the invariant.
LEMMA BeginRight ==
    ASSUME WholeInv, Begin
    PROVE  WholeInv'
<1> DEFINE g == [pager EXCEPT !.eState = "LOCKED", !.dbOrigSize = pager.dbSize,
                              !.dbFileSize = pager.dbSize, !.journalOff = 0]
<1>1. /\ pc = Idle /\ pager.eState = "READER" /\ nPage <= pager.dbSize
      /\ IF pager.dbSize = 0 THEN ver < MaxVersion /\ ver' = ver + 1 ELSE ver' = ver
      /\ Becomes(Created(g))
      /\ db' = db /\ gone' = gone /\ pc' = pc /\ faults' = faults /\ setting' = setting
  BY DEF Begin, Fresh
<1>2. /\ Sizes /\ ver \in Nat /\ ver <= MaxVersion /\ faults \in Nat /\ MaxVersion \in Nat
      /\ PagerType(pager) /\ DOMAIN pager = Fields /\ Len(jrnl.safe) \in Nat
  BY Bounds
<1>3. OwnRecords' => OwnRecords
  BY <1>1, <1>2, CarriedOwn
<1>4. /\ DOMAIN g = Fields /\ g.eState = "LOCKED" /\ g.dbOrigSize = pager.dbSize /\ g.dbFileSize = pager.dbSize
      /\ g.dbSize = pager.dbSize /\ g.journalOff = 0 /\ g.cache = pager.cache /\ g.header = pager.header
      /\ g.pInJournal = pager.pInJournal /\ g.sub = pager.sub /\ g.aSavepoint = pager.aSavepoint /\ g.jfd = pager.jfd
      /\ g.nRec = pager.nRec /\ g.journalHdr = pager.journalHdr /\ g.nonce = pager.nonce
  BY <1>2 DEF Fields
<1> HIDE DEF g
<1>5. /\ pager.pInJournal = {} /\ pager.sub = <<>> /\ pager.header = 0 /\ pager.aSavepoint = <<>>
      /\ ~MagicAt(jrnl.vis, 1)
      /\ DOMAIN pager.cache \subseteq 1 .. pager.dbSize /\ Reliable(pager, db.vis)
      /\ pager.dbSize = Len(db.vis) /\ pager.dbSize \in 0 .. MaxPages
  BY <1>1, <1>2 DEF WholeInv, ReaderRight, PagerType
<1>6. DataFile(db.vis) /\ JournalFile(jrnl.vis, ver)
  BY DEF WholeInv, Basics
<1>7. nPage = PagesOf(pager, db.vis) /\ PagesOf(g, db.vis) = PagesOf(pager, db.vis)
  BY <1>4 DEF nPage, Content, PagesOf
<1>8. PagerType(g)
  <2>1. g.eState \in {"OPEN", "READER", "ERROR"} \cup Writer /\ g.pInJournal \subseteq 1 .. g.dbOrigSize
        /\ g.dbFileSize \in Nat /\ g.journalOff \in Nat
    BY <1>4, <1>5 DEF Writer
  <2>2. QED
    BY <1>2, <1>4, <1>5, <2>1 DEF PagerType
<1>9. Begun(g, jrnl.vis, db.vis)
  <2>1. Reliable(g, db.vis)
    BY <1>4, <1>5 DEF Reliable
  <2>2. SavesFresh(g)
    BY <1>4, <1>5 DEF SavesFresh
  <2>3. QED
    BY <1>1, <1>4, <1>5, <1>7, <2>1, <2>2 DEF Begun
<1>10. CASE pager.dbSize > 0
  <2>1. pager' = g /\ jrnl'.vis = jrnl.vis /\ jrnl'.safe = jrnl.safe
    <3>1. Created(g) = [g |-> g, J |-> jrnl.vis]
      BY <1>4, <1>10 DEF Created
    <3>2. QED
      BY <1>1, <3>1 DEF Becomes, Seen
  <2>2. ver' = ver /\ setting \in Settings
    BY <1>1, <1>2, <1>5, <1>10 DEF WholeInv, Basics
  <2>3. Basics'
    BY <1>1, <1>2, <1>4, <1>8, <2>1, <2>2, BasicsRight DEF WholeInv, Basics
  <2>4. Flow' /\ OpenRight' /\ ReaderRight' /\ WriterRight'
    BY <1>1, <1>4, <2>1 DEF Flow, OpenRight, ReaderRight, WriterRight, Opened3
  <2>5. LockedRight'
    BY <1>1, <1>3, <1>4, <1>9, <1>10, <2>1, CarriedContent DEF LockedRight
  <2>6. QED
    BY <2>3, <2>4, <2>5 DEF WholeInv
<1>11. CASE pager.dbSize = 0
  <2> DEFINE d == [v |-> ver, n |-> 1]
             s == [g |-> g, J |-> jrnl.vis]
             w == Written(s, 1, d)
  <2>1. pager' = w.g /\ jrnl'.vis = w.J /\ jrnl'.safe = jrnl.safe
    <3>1. Created(g) = w
      BY <1>4, <1>11 DEF Created
    <3> HIDE DEF w
    <3>2. QED
      BY <1>1, <3>1 DEF Becomes, Seen
  <2>2. d \in Page
    <3>1. ver \in -2 .. MaxVersion /\ 1 \in 0 .. MaxPages
      BY <1>2 DEF Sizes
    <3>2. QED
      BY <3>1 DEF Page
  <2>3. InWork(s.g, s.J, db.vis, jrnl.safe)
    BY <1>4, <1>5, <1>6, <1>8, <1>9 DEF InWork, Start
  <2>4. s.g.dbSize = 0 /\ d.n = 1
    BY <1>4, <1>11
  <2> HIDE DEF s, d
  <2>5. 1 \in 1 .. MaxPages /\ 1 <= s.g.dbSize + 1
    BY <1>2, <2>4 DEF Sizes
  <2>6. /\ Ready(w.g, w.J, db.vis, jrnl.safe, ver + 1)
        /\ w.g.dbSize = Bigger(s.g.dbSize, 1) /\ w.g.dbSize > 0
        /\ PagesOf(w.g, db.vis) = 1
    <3>1. /\ Ready(w.g, w.J, db.vis, jrnl.safe, ver + 1)
          /\ w.g.dbSize = Bigger(s.g.dbSize, 1) /\ w.g.dbSize > 0
          /\ PagesOf(w.g, db.vis) = IF 1 = 1 THEN d.n ELSE PagesOf(s.g, db.vis)
      BY <1>2, <2>2, <2>3, <2>5, WrittenReady
    <3>2. QED
      BY <2>4, <3>1
  <2> HIDE DEF w
  <2>7. w.g.dbSize = 1
    BY <2>4, <2>6 DEF Bigger
  <2>8. PagesOf(pager', db'.vis) <= pager'.dbSize /\ pager'.dbSize > 0
    BY <1>1, <2>1, <2>6, <2>7
  <2>9. Ready(pager', jrnl'.vis, db'.vis, jrnl'.safe, ver + 1) /\ pc' = Idle /\ ver < MaxVersion /\ ver' = ver + 1
    BY <1>1, <1>11, <2>1, <2>6
  <2>10. QED
    BY <1>1, <2>1, <2>8, <2>9, StatementRight
<1>12. QED
  BY <1>5, <1>10, <1>11

\* sqlite3PagerSharedLock keeps it, with a hot journal and without.
LEMMA SharedLockRight ==
    ASSUME WholeInv, SharedLock
    PROVE  WholeInv'
<1>1. /\ pc = Idle /\ pager.eState = "OPEN"
      /\ db' = db /\ ver' = ver /\ faults' = faults /\ setting' = setting
  BY DEF SharedLock
<1>2. /\ Sizes /\ ver \in Nat /\ ver <= MaxVersion /\ faults \in Nat
      /\ PagerType(pager) /\ DOMAIN pager = Fields /\ Len(jrnl.vis) \in Nat /\ Len(db.vis) \in Nat
  BY Bounds
<1>3. OwnRecords' => OwnRecords
  BY <1>1, <1>2, CarriedOwn
<1>4. pc.at = "idle" /\ pc.task = "none"
  BY <1>1 DEF Idle
<1>5. /\ pager.pInJournal = {} /\ pager.sub = <<>> /\ pager.header = 0 /\ pager.aSavepoint = <<>>
      /\ DOMAIN pager.cache = {} \/ ~MagicAt(jrnl.vis, 1)
      /\ Reliable(pager, db.vis)
  BY <1>1, <1>4 DEF WholeInv, OpenRight
<1>6. /\ DataFile(db.vis) /\ DataFile(db.safe) /\ JournalFile(jrnl.vis, ver) /\ JournalFile(jrnl.safe, ver)
      /\ JournalFile(gone.vis, ver) /\ JournalFile(gone.safe, ver) /\ setting \in Settings /\ pager.nonce <= ver
      /\ DOMAIN pc = {"at", "task", "page"}
  BY DEF WholeInv, Basics
<1>7. CASE Hot(db.vis, jrnl.vis)
  <2> DEFINE w == [pager EXCEPT !.jfd = TRUE, !.journalHdr = Len(jrnl.vis)]
  <2>1. pager' = w /\ pc' = At("playback", "recover") /\ jrnl' = [vis |-> jrnl.vis, safe |-> jrnl.vis] /\ gone' = gone
    BY <1>7 DEF SharedLock, Synced
  <2>2. /\ DOMAIN w = Fields /\ w.jfd = TRUE /\ w.journalHdr = Len(jrnl.vis)
        /\ w.eState = pager.eState /\ w.dbSize = pager.dbSize /\ w.dbOrigSize = pager.dbOrigSize
        /\ w.dbFileSize = pager.dbFileSize /\ w.cache = pager.cache /\ w.nRec = pager.nRec
        /\ w.journalOff = pager.journalOff /\ w.header = pager.header /\ w.nonce = pager.nonce
        /\ w.pInJournal = pager.pInJournal /\ w.aSavepoint = pager.aSavepoint /\ w.sub = pager.sub
    BY <1>2 DEF Fields
  <2> HIDE DEF w
  <2>3. PagerType(w)
    <3>1. w.jfd \in BOOLEAN
      BY <2>2
    <3>2. QED
      BY <1>2, <2>2, <3>1 DEF PagerType
  <2>4. DOMAIN pc' = {"at", "task", "page"} /\ pc'.at = "playback" /\ pc'.task = "recover"
    BY <2>1 DEF At
  <2>5. jrnl'.vis = jrnl.vis /\ jrnl'.safe = jrnl.vis
    BY <2>1
  <2>6. Basics'
    BY <1>1, <1>2, <1>6, <2>1, <2>2, <2>3, <2>4, <2>5, BasicsRight
  <2>7. Flow' /\ ReaderRight' /\ LockedRight' /\ WriterRight'
    BY <1>1, <2>1, <2>2, <2>4 DEF Flow, ReaderRight, LockedRight, WriterRight, Opened3
  <2>8. MagicAt(jrnl.vis, 1)
    BY <1>2, <1>7 DEF Hot, MagicAt
  <2>9. OpenRight'
    BY <1>5, <2>1, <2>2, <2>4, <2>5, <2>8 DEF OpenRight
  <2>10. QED
    BY <2>6, <2>7, <2>9 DEF WholeInv
<1>8. CASE ~Hot(db.vis, jrnl.vis)
  <2> DEFINE w == [pager EXCEPT !.eState = "READER", !.dbSize = Len(db.vis)]
  <2>1. /\ pager' = w /\ pc' = pc
        /\ \/ Len(db.vis) = 0 /\ jrnl.vis # <<>> /\ gone' = jrnl /\ jrnl' = NoFile
           \/ ~(Len(db.vis) = 0 /\ jrnl.vis # <<>>) /\ gone' = gone /\ jrnl' = jrnl
    BY <1>8 DEF SharedLock
  <2>2. /\ DOMAIN w = Fields /\ w.eState = "READER" /\ w.dbSize = Len(db.vis)
        /\ w.jfd = pager.jfd /\ w.dbOrigSize = pager.dbOrigSize /\ w.journalHdr = pager.journalHdr
        /\ w.dbFileSize = pager.dbFileSize /\ w.cache = pager.cache /\ w.nRec = pager.nRec
        /\ w.journalOff = pager.journalOff /\ w.header = pager.header /\ w.nonce = pager.nonce
        /\ w.pInJournal = pager.pInJournal /\ w.aSavepoint = pager.aSavepoint /\ w.sub = pager.sub
    BY <1>2 DEF Fields
  <2> HIDE DEF w
  <2>3. PagerType(w)
    <3>1. w.dbSize \in 0 .. MaxPages
      BY <1>2, <1>6, <2>2 DEF DataFile, Sizes
    <3>2. QED
      BY <1>2, <2>2, <3>1 DEF PagerType
  <2>4. NoFile.vis = <<>> /\ NoFile.safe = <<>>
    BY DEF NoFile
  <2>5. JournalFile(<<>>, ver)
    <3>1. Len(<<>>) = 0 /\ <<>> = [k \in 1 .. 0 |-> <<>>[k]]
      OBVIOUS
    <3>2. Numbered(<<>>)
      BY <3>1 DEF Numbered
    <3>3. QED
      BY <3>1, <3>2 DEF JournalFile
  <2>6. Basics'
    <3>1. /\ JournalFile(jrnl'.vis, ver') /\ JournalFile(jrnl'.safe, ver')
          /\ JournalFile(gone'.vis, ver') /\ JournalFile(gone'.safe, ver')
      BY <1>1, <1>6, <2>1, <2>4, <2>5
    <3>2. QED
      BY <1>1, <1>2, <1>6, <2>1, <2>2, <2>3, <3>1, BasicsRight
  <2>7. Flow' /\ OpenRight' /\ LockedRight' /\ WriterRight'
    BY <1>1, <2>1, <2>2 DEF Flow, OpenRight, LockedRight, WriterRight, Opened3
  <2>8. ~MagicAt(jrnl'.vis, 1)
    <3>1. CASE Len(db.vis) = 0
      <4>1. jrnl'.vis = <<>>
        BY <2>1, <2>4, <3>1
      <4>2. QED
        BY <4>1 DEF MagicAt
    <3>2. CASE Len(db.vis) # 0
      <4>1. jrnl' = jrnl /\ Len(db.vis) > 0
        BY <1>2, <2>1, <3>2
      <4>2. QED
        BY <1>2, <1>8, <4>1 DEF Hot, MagicAt
    <3>3. QED
      BY <3>1, <3>2
  <2>9. DOMAIN w.cache \subseteq 1 .. w.dbSize
    <3>1. \A p \in DOMAIN pager.cache : p \in Nat /\ p > 0 /\ p <= Len(db.vis)
      BY <1>2, <1>5 DEF PagerType, CacheType, Reliable, Sizes
    <3>2. QED
      BY <1>2, <2>2, <3>1
  <2>10. Reliable(w, db.vis)
    BY <1>5, <2>2 DEF Reliable
  <2>11. ReaderRight'
    BY <1>1, <1>2, <1>3, <1>5, <2>1, <2>2, <2>8, <2>9, <2>10, CarriedContent DEF ReaderRight
  <2>12. QED
    BY <2>6, <2>7, <2>11 DEF WholeInv
<1>9. QED
  BY <1>7, <1>8

\* A pager in the ERROR state.
LEMMA ErrorFacts ==
    ASSUME NEW g, PagerType(g)
    PROVE  PagerType(Error(g)) /\ Error(g).eState = "ERROR" /\ Error(g).nonce = g.nonce
<1>1. DOMAIN g = Fields
  BY DEF PagerType
<1> DEFINE w == Error(g)
<1>2. /\ DOMAIN w = Fields /\ w.eState = "ERROR"
      /\ w.jfd = g.jfd /\ w.dbSize = g.dbSize /\ w.dbOrigSize = g.dbOrigSize /\ w.journalHdr = g.journalHdr
      /\ w.dbFileSize = g.dbFileSize /\ w.cache = g.cache /\ w.nRec = g.nRec
      /\ w.journalOff = g.journalOff /\ w.header = g.header /\ w.nonce = g.nonce
      /\ w.pInJournal = g.pInJournal /\ w.aSavepoint = g.aSavepoint /\ w.sub = g.sub
  BY <1>1 DEF Fields, Error
<1> HIDE DEF w
<1>3. PagerType(w)
  BY <1>2 DEF PagerType
<1>4. QED
  BY <1>2, <1>3 DEF w

\* In the ERROR state only the files matter.
LEMMA ErrorRight ==
    ASSUME Basics', pc' = Idle, pager'.eState = "ERROR"
    PROVE  WholeInv'
<1>1. Flow' /\ OpenRight' /\ ReaderRight' /\ LockedRight' /\ WriterRight'
  BY DEF Flow, OpenRight, ReaderRight, LockedRight, WriterRight, Opened3
<1>2. QED
  BY <1>1 DEF WholeInv

\* A database file that is cut is a database file.
LEMMA SizedFile ==
    ASSUME Sizes, NEW f, DataFile(f), NEW n \in 0 .. MaxPages
    PROVE  DataFile(Sized(f, n))
<1>1. Zero \in Page
  BY DEF Sizes, Zero, Page, MaxVersion
<1>2. n \in Nat /\ Numbered(f) /\ Len(f) \in Nat
  BY DEF Sizes, DataFile, Numbered
<1>3. /\ Numbered(Sized(f, n)) /\ Len(Sized(f, n)) = n
      /\ \A p \in 1 .. n : Sized(f, n)[p] = IF p <= Len(f) THEN f[p] ELSE Zero
  BY <1>2, SizedFacts
<1>4. \A p \in 1 .. n : p <= Len(f) => f[p] \in Page
  BY <1>2 DEF DataFile
<1>5. QED
  BY <1>1, <1>3, <1>4 DEF DataFile

\* The truncation after a commit keeps the invariant.
LEMMA ShrinkRight ==
    ASSUME WholeInv, Shrink
    PROVE  WholeInv'
<1>1. /\ pc.at = "shrink" /\ jrnl' = jrnl /\ gone' = gone /\ ver' = ver /\ setting' = setting
      /\ \/ db' = Seen(db, Sized(db.vis, pager.dbSize)) /\ pc' = Idle /\ pager' = pager /\ faults' = faults
         \/ MayFail /\ Failed(pager) /\ db' = db
  BY DEF Shrink
<1>2. /\ Sizes /\ ver \in Nat /\ ver <= MaxVersion /\ faults \in Nat /\ PagerType(pager) /\ Len(db.vis) \in Nat
  BY Bounds
<1>3. /\ DataFile(db.vis) /\ DataFile(db.safe) /\ JournalFile(jrnl.vis, ver) /\ JournalFile(jrnl.safe, ver)
      /\ JournalFile(gone.vis, ver) /\ JournalFile(gone.safe, ver) /\ setting \in Settings /\ pager.nonce <= ver
  BY DEF WholeInv, Basics
<1>4. pc.task = "end" /\ pager.eState = "READER"
  BY <1>1 DEF WholeInv, Flow, Idle
<1>5. DOMAIN Idle = {"at", "task", "page"}
  BY DEF Idle
<1>6. CASE db' = Seen(db, Sized(db.vis, pager.dbSize)) /\ pc' = Idle /\ pager' = pager /\ faults' = faults
  <2>1. db'.vis = Sized(db.vis, pager.dbSize) /\ db'.safe = db.safe
    BY <1>6 DEF Seen
  <2>2. pager.dbSize \in 0 .. MaxPages /\ pager.dbSize \in Nat
    BY <1>2 DEF PagerType, Sizes
  <2>3. DataFile(db'.vis)
    BY <1>2, <1>3, <2>1, <2>2, SizedFile
  <2>4. Basics'
    BY <1>1, <1>2, <1>3, <1>5, <1>6, <2>1, <2>3, BasicsRight
  <2>5. Flow' /\ OpenRight' /\ LockedRight' /\ WriterRight'
    BY <1>4, <1>6 DEF Flow, OpenRight, LockedRight, WriterRight, Opened3
  <2>6. OwnRecords' => OwnRecords
    BY <1>1, <1>2, <1>6, CarriedOwn
  <2>7. /\ pager.pInJournal = {} /\ pager.sub = <<>> /\ pager.header = 0 /\ pager.aSavepoint = <<>>
        /\ ~MagicAt(jrnl.vis, 1)
        /\ DOMAIN pager.cache \subseteq 1 .. pager.dbSize /\ Reliable(pager, db.vis)
        /\ pager.dbSize <= Len(db.vis)
    BY <1>4 DEF WholeInv, ReaderRight
  <2>8. /\ Len(db'.vis) = pager.dbSize
        /\ \A p \in 1 .. pager.dbSize : db'.vis[p] = db.vis[p]
    <3>1. Numbered(db.vis)
      BY <1>3 DEF DataFile
    <3>2. /\ Len(Sized(db.vis, pager.dbSize)) = pager.dbSize
          /\ \A p \in 1 .. pager.dbSize : Sized(db.vis, pager.dbSize)[p] = IF p <= Len(db.vis) THEN db.vis[p] ELSE Zero
      BY <2>2, <3>1, SizedFacts
    <3>3. QED
      BY <1>2, <2>1, <2>2, <2>7, <3>2
  <2>9. Reliable(pager, db'.vis)
    BY <2>2, <2>7, <2>8 DEF Reliable
  <2>10. ReaderRight'
    BY <1>1, <1>6, <2>2, <2>6, <2>7, <2>8, <2>9, CarriedContent DEF ReaderRight
  <2>11. QED
    BY <2>4, <2>5, <2>10 DEF WholeInv
<1>7. CASE MayFail /\ Failed(pager) /\ db' = db
  <2>1. pager' = Error(pager) /\ pc' = Idle /\ faults' = faults + 1
    BY <1>4, <1>7 DEF Failed, MayFail
  <2>2. PagerType(pager') /\ pager'.eState = "ERROR" /\ pager'.nonce = pager.nonce
    BY <1>2, <2>1, ErrorFacts
  <2>3. Basics'
    BY <1>1, <1>2, <1>3, <1>5, <1>7, <2>1, <2>2, BasicsRight
  <2>4. QED
    BY <2>1, <2>2, <2>3, ErrorRight
<1>8. QED
  BY <1>1, <1>6, <1>7

\* The header in progress.
NewHeader(g, K, i) == i = g.header /\ K[i].kind = "hdr" /\ K[i].orig = g.dbOrigSize /\ K[i].nonce = g.nonce
SameBlocks(g, J, K) ==
    LastOf(g) <= Len(K) /\ \A i \in 1 .. LastOf(g) : K[i] = J[i] \/ NewHeader(g, K, i)

\* The blocks behind the records may change, as long as they are not taken for records, and
\* the count in the header in progress.
LEMMA OtherTail ==
    ASSUME NEW g, PagerType(g), NEW J, NEW v, JournalFile(J, v), Layout(g, J), NEW K, JournalFile(K, v),
           SameBlocks(g, J, K),
           g.header # 0 => \A m \in LastOf(g) + 1 .. Len(K) : ~Good(K, m, g.nonce),
           g.header = 0 => ~MagicAt(K, g.journalHdr + 1)
    PROVE  /\ Layout(g, K) /\ LastOf(g) \in Nat /\ Records(g, K) = Records(g, J)
           /\ \A b \in Records(g, J) : K[b] = J[b]
           /\ RecordsRight(g, J) => RecordsRight(g, K)
           /\ \A safe : SyncedRight(g, J, safe) => SyncedRight(g, K, safe)
           /\ \A f : CacheRight(g, J, f) => CacheRight(g, K, f)
           /\ \A f : ContentRight(g, J, f) => ContentRight(g, K, f)
<1> DEFINE last == LastOf(g)
           h == g.journalHdr
<1>1. /\ h \in Nat /\ g.nRec \in Nat /\ last \in Nat /\ 0 < last /\ h <= last
      /\ g.header = 0 => last = h
      /\ g.header # 0 => g.header = h + 1 /\ last = h + 1 + g.nRec
      /\ Len(K) \in Nat /\ Len(J) \in Nat /\ last <= Len(J)
  BY DEF PagerType, Layout, LastOf, JournalFile, Numbered
<1>2. /\ \A i \in 1 .. last : i # g.header => K[i] = J[i]
      /\ \A i \in 1 .. last : K[i] = J[i] \/ NewHeader(g, K, i)
      /\ last <= Len(K) /\ \A i \in 1 .. h : i # g.header
      /\ \A i \in 1 .. last : K[i].kind = J[i].kind
  <2>1. g.header # 0 => J[g.header].kind = "hdr"
    BY <1>1 DEF Layout, InProgressRight
  <2>2. \A i \in 1 .. last : K[i] = J[i] \/ NewHeader(g, K, i)
    BY DEF SameBlocks
  <2>3. \A i \in 1 .. h : i # g.header
    BY <1>1
  <2>4. \A i \in 1 .. last : K[i].kind = J[i].kind
    BY <2>1, <2>2 DEF NewHeader
  <2>5. QED
    BY <2>2, <2>3, <2>4 DEF SameBlocks, NewHeader
<1>3. Segments(K, h, g.dbOrigSize)
  <2>1. Segments(J, h, g.dbOrigSize)
    BY DEF Layout
  <2>2. ASSUME NEW i \in 1 .. h, IsSegment(J, i, h, g.dbOrigSize) PROVE IsSegment(K, i, h, g.dbOrigSize)
    <3>1. i \in 1 .. last /\ i \in 1 .. h /\ K[i] = J[i] /\ J[i].kind = "hdr"
      BY <1>1, <1>2, <2>2 DEF IsSegment
    <3>2. J[i].n \in Nat
      <4>1. IsBlock(J[i], v)
        BY <1>1, <3>1 DEF JournalFile
      <4>2. QED
        BY <3>1, <4>1 DEF IsBlock
    <3>3. \A m \in i + 1 .. i + J[i].n : m \in 1 .. last /\ m \in 1 .. h
      BY <1>1, <2>2, <3>1, <3>2 DEF IsSegment
    <3>4. i + J[i].n = h \/ i + J[i].n + 1 \in 1 .. last
      <4>1. i + J[i].n <= h
        BY <2>2 DEF IsSegment
      <4>2. h \in Nat /\ last \in Nat /\ h <= last
        BY <1>1
      <4> HIDE DEF h, last
      <4>3. \A n \in Nat : i + n <= h => i + n = h \/ i + n + 1 \in 1 .. last
        BY <4>2
      <4>4. QED
        BY <3>2, <4>1, <4>3
    <3>5. QED
      BY <1>2, <2>2, <3>1, <3>3, <3>4 DEF IsSegment
  <2>3. \A i \in 1 .. h : K[i] = J[i]
    BY <1>1, <1>2
  <2>4. QED
    BY <2>1, <2>2, <2>3 DEF Segments
<1>4. ASSUME g.header # 0 PROVE InProgressRight(g, K)
  <2>1. InProgressRight(g, J) /\ h + 1 \in 1 .. last
    BY <1>1, <1>4 DEF Layout
  <2>2. \A m \in h + 1 + 1 .. last : K[m] = J[m]
    BY <1>1, <1>2, <1>4
  <2>3. K[h + 1] = J[h + 1] \/ NewHeader(g, K, h + 1)
    BY <1>2, <2>1
  <2>4. QED
    BY <1>2, <1>4, <2>1, <2>2, <2>3 DEF InProgressRight, NewHeader
<1>5. K[1].kind = "hdr" /\ K[1].orig = g.dbOrigSize
  <2>1. 1 \in 1 .. last
    BY <1>1
  <2>2. QED
    BY <1>2, <2>1 DEF Layout, NewHeader
<1>6. Layout(g, K)
  <2>1. g.header = 0 \/ (g.header = g.journalHdr + 1 /\ InProgressRight(g, K))
    BY <1>1, <1>4
  <2>2. QED
    BY <1>1, <1>2, <1>3, <1>5, <2>1 DEF Layout
<1>7. Records(g, K) = Records(g, J) /\ \A b \in Records(g, J) : K[b] = J[b]
  <2>1. Records(g, K) = Records(g, J)
    BY <1>2 DEF Records, RecordsIn
  <2>2. g.header # 0 => J[g.header].kind = "hdr"
    BY <1>1 DEF Layout, InProgressRight
  <2>3. 0 \notin Records(g, J)
    BY DEF Records, RecordsIn
  <2>4. \A b \in Records(g, J) : b \in 1 .. last /\ b # g.header
    BY <2>2, <2>3 DEF Records, RecordsIn
  <2>5. QED
    BY <1>2, <2>1, <2>4
<1>8. RecordsRight(g, J) => RecordsRight(g, K)
  BY <1>7 DEF RecordsRight
<1>9. \A safe : SyncedRight(g, J, safe) => SyncedRight(g, K, safe)
  <2>1. \A i \in 1 .. h : K[i] = J[i]
    BY <1>1, <1>2
  <2>2. QED
    BY <2>1 DEF SyncedRight
<1>10. \A f : CacheRight(g, J, f) => CacheRight(g, K, f)
  BY <1>7 DEF CacheRight
<1>11. \A f : ContentRight(g, J, f) => ContentRight(g, K, f)
  BY <1>7 DEF ContentRight
<1>12. QED
  BY <1>1, <1>6, <1>7, <1>8, <1>9, <1>10, <1>11

\* A statement or commit that failed and must be rolled back.
LEMMA MustRollBackRight ==
    ASSUME WholeInv, setting' = setting, gone' = gone, faults' = faults + 1, db'.safe = db.safe, jrnl'.safe = jrnl.safe,
           pc' = At("mustRollBack", "none"), ver' = ver \/ (ver < MaxVersion /\ ver' = ver + 1),
           PagerType(pager'), pager'.nonce <= ver', DataFile(db'.vis), JournalFile(jrnl'.vis, ver'),
           pager'.eState \in {"CACHEMOD", "DBMOD"},
           Layout(pager', jrnl'.vis), RecordsRight(pager', jrnl'.vis), SyncedRight(pager', jrnl'.vis, jrnl'.safe),
           CacheRight(pager', jrnl'.vis, db'.vis), OwnRecords => ContentRight(pager', jrnl'.vis, db'.vis),
           pager'.header # 0 =>
               LET i == pager'.journalHdr + 1
               IN  \/ ~jrnl'.vis[i].magic /\ jrnl'.vis[i].n = 0
                   \/ jrnl'.vis[i].magic /\ jrnl'.vis[i].n = pager'.nRec /\ ~MagicAt(jrnl'.vis, LastOf(pager') + 1)
    PROVE  WholeInv'
<1>1. Sizes /\ ver \in Nat /\ ver <= MaxVersion /\ MaxVersion \in Nat /\ faults \in Nat
  BY Bounds
<1>2. ver' \in Nat /\ ver <= ver' /\ ver' <= MaxVersion
  BY <1>1
<1>3. /\ JournalFile(jrnl.safe, ver') /\ JournalFile(gone.vis, ver') /\ JournalFile(gone.safe, ver')
      /\ DataFile(db.safe) /\ setting \in Settings
  BY <1>1, <1>2, OlderBlocks DEF WholeInv, Basics
<1>4. OwnRecords' => OwnRecords
  BY <1>1, CarriedOwn
<1>5. DOMAIN pc' = {"at", "task", "page"} /\ pc'.at = "mustRollBack" /\ pc'.task = "none"
  BY DEF At
<1>6. faults' > 0 /\ faults' \in Nat
  BY <1>1
<1>7. Basics'
  BY <1>1, <1>2, <1>3, <1>5, <1>6, BasicsRight
<1>8. Flow'
  BY <1>5 DEF Flow
<1>9. OpenRight' /\ ReaderRight' /\ LockedRight'
  BY DEF OpenRight, ReaderRight, LockedRight
<1>10. Stage'
  BY <1>5, <1>6 DEF Stage
<1>11. WriterRight'
  BY <1>4, <1>5, <1>10 DEF WriterRight
<1>12. QED
  BY <1>7, <1>8, <1>9, <1>11 DEF WholeInv

TornWrite(g, J, f, w, K, p) ==
    /\ w = [g EXCEPT !.cache = Cached(@, p, Get(g.cache, f, g.dbSize, p), TRUE, TRUE)]
    /\ K = Put(J, g.journalOff + 1, Junk)

\* A write of the journal that fails leaves a block that is no record, and the page as it was.
LEMMA FailedWrite ==
    ASSUME Sizes, NEW g, NEW J, NEW f, NEW safe, NEW v \in Nat, Ready(g, J, f, safe, v),
           NEW p \in 1 .. g.dbOrigSize, p \notin g.pInJournal,
           NEW w, NEW K, TornWrite(g, J, f, w, K, p)
    PROVE  /\ PagerType(w) /\ JournalFile(K, v) /\ Layout(w, K) /\ RecordsRight(w, K) /\ SyncedRight(w, K, safe)
           /\ CacheRight(w, K, f) /\ (OwnRecords => ContentRight(w, K, f))
           /\ w.header = g.journalHdr + 1 /\ w.journalHdr = g.journalHdr /\ w.eState = g.eState /\ w.nonce = g.nonce
           /\ ~K[g.journalHdr + 1].magic /\ K[g.journalHdr + 1].n = 0
<1> DEFINE last == LastOf(g)
           h == g.journalHdr
           d == Get(g.cache, f, g.dbSize, p)
           e == [data |-> d, dirty |-> TRUE, sync |-> TRUE]
<1>0. w = [g EXCEPT !.cache = Cached(@, p, d, TRUE, TRUE)] /\ K = Put(J, g.journalOff + 1, Junk)
  BY DEF TornWrite
<1>1. /\ h \in Nat /\ g.nRec \in Nat /\ g.header = h + 1 /\ last = h + 1 + g.nRec /\ last \in Nat /\ g.journalOff = last
      /\ Len(J) \in Nat /\ last <= Len(J) /\ Numbered(J) /\ InProgressRight(g, J)
  BY ReadyEnd
<1>2. /\ PagerType(g) /\ DOMAIN g = Fields /\ JournalFile(J, v) /\ DataFile(f)
      /\ Layout(g, J) /\ ~J[h + 1].magic /\ J[h + 1].n = 0
      /\ RecordsRight(g, J) /\ SyncedRight(g, J, safe) /\ CacheRight(g, J, f) /\ (OwnRecords => ContentRight(g, J, f))
  BY DEF Ready, PagerType
<1>3. /\ g.dbOrigSize \in 0 .. MaxPages /\ g.dbSize \in Nat /\ p \in 1 .. MaxPages /\ p \in Nat /\ p > 0
      /\ p <= Len(f) /\ p <= g.dbSize /\ g.dbOrigSize <= g.dbSize /\ CacheType(g.cache) /\ Len(f) \in Nat
  BY <1>2 DEF PagerType, CacheRight, Sizes, DataFile, Numbered
<1>4. d \in Page
  BY <1>2, <1>3, GetTyped
<1>5. /\ DOMAIN w = Fields /\ SameCore(g, w) /\ w.dbSize = g.dbSize /\ w.dbFileSize = g.dbFileSize
      /\ w.sub = g.sub /\ w.aSavepoint = g.aSavepoint /\ w.cache = Cached(g.cache, p, d, TRUE, TRUE)
  BY <1>0, <1>2 DEF Fields, SameCore
<1>6. /\ DOMAIN w.cache = DOMAIN g.cache \cup {p}
      /\ w.cache[p] = e
      /\ \A q \in DOMAIN g.cache : q # p => w.cache[q] = g.cache[q]
  BY <1>5 DEF Cached
<1>6a. e \in [data : Page, dirty : BOOLEAN, sync : BOOLEAN]
  BY <1>4
<1>6b. e.data = d /\ e.dirty = TRUE /\ e.sync = TRUE
  OBVIOUS
<1> HIDE DEF e, d
<1>7. PagerType(w)
  <2>1. CacheType(w.cache)
    <3>1. w.cache[p] \in [data : Page, dirty : BOOLEAN, sync : BOOLEAN] /\ w.cache[p].dirty
      BY <1>6, <1>6a, <1>6b
    <3>2. QED
      BY <1>3, <1>6, <3>1 DEF CacheType
  <2>2. QED
    BY <1>2, <1>5, <2>1 DEF PagerType, SameCore
<1>8. /\ Numbered(K) /\ Len(K) = (IF last + 1 > Len(J) THEN last + 1 ELSE Len(J))
      /\ K[last + 1] = Junk /\ \A k \in 1 .. Len(J) : k # last + 1 => K[k] = J[k]
  <2> DEFINE i == last + 1
  <2>1. i \in Nat /\ i > 0 /\ i <= Len(J) + 1 /\ K = Put(J, i, Junk)
    BY <1>0, <1>1
  <2> HIDE DEF i
  <2>2. /\ Numbered(K) /\ Len(K) = (IF i > Len(J) THEN i ELSE Len(J))
        /\ K[i] = Junk /\ \A k \in 1 .. Len(J) : k # i => K[k] = J[k]
    BY <1>1, <2>1, PutBlock
  <2>3. QED
    BY <2>2 DEF i
<1>9. Junk.kind = "junk"
  BY DEF Junk
<1>10. \A k \in 1 .. Len(K) : k = last + 1 \/ (k \in 1 .. Len(J) /\ K[k] = J[k])
  BY <1>1, <1>8
<1>11. JournalFile(K, v)
  <2>1. IsBlock(K[last + 1], v)
    BY <1>8, <1>9 DEF IsBlock
  <2>2. \A k \in 1 .. Len(J) : IsBlock(J[k], v)
    BY <1>2 DEF JournalFile
  <2>3. \A k \in 1 .. Len(K) : IsBlock(K[k], v)
    BY <1>10, <2>1, <2>2
  <2>4. QED
    BY <1>8, <2>3 DEF JournalFile
<1>12. last <= Len(K) /\ \A i \in 1 .. last : K[i] = J[i]
  BY <1>1, <1>8
<1>13. \A m \in last + 1 .. Len(K) : ~Good(K, m, g.nonce)
  <2>1. \A m \in last + 1 .. Len(J) : ~Good(J, m, g.nonce)
    BY <1>1 DEF InProgressRight
  <2>2. ASSUME NEW m \in last + 1 .. Len(K) PROVE ~Good(K, m, g.nonce)
    <3>1. CASE m = last + 1
      BY <1>8, <1>9, <3>1 DEF Good
    <3>2. CASE m # last + 1
      <4>1. m \in last + 1 .. Len(J) /\ K[m] = J[m]
        BY <1>1, <1>8, <1>10, <3>2
      <4>2. QED
        BY <2>1, <4>1 DEF Good
    <3>3. QED
      BY <3>1, <3>2
  <2>3. QED
    BY <2>2
<1> HIDE DEF last, h
<1>14. /\ Layout(g, K) /\ Records(g, K) = Records(g, J) /\ RecordsRight(g, K) /\ SyncedRight(g, K, safe)
       /\ CacheRight(g, K, f) /\ (OwnRecords => ContentRight(g, K, f))
  <2>1. g.header # 0
    BY <1>1
  <2>2. /\ SameBlocks(g, J, K)
        /\ \A m \in LastOf(g) + 1 .. Len(K) : ~Good(K, m, g.nonce)
    BY <1>12, <1>13 DEF last, SameBlocks
  <2>3. /\ Layout(g, K) /\ Records(g, K) = Records(g, J)
        /\ RecordsRight(g, J) => RecordsRight(g, K)
        /\ \A x : SyncedRight(g, J, x) => SyncedRight(g, K, x)
        /\ \A x : CacheRight(g, J, x) => CacheRight(g, K, x)
        /\ \A x : ContentRight(g, J, x) => ContentRight(g, K, x)
    BY <1>2, <1>11, <2>1, <2>2, OtherTail
  <2>4. QED
    BY <1>2, <2>3
<1>15. /\ LastOf(w) = LastOf(g) /\ Records(w, K) = Records(g, K)
       /\ Layout(w, K) /\ RecordsRight(w, K) /\ SyncedRight(w, K, safe)
  BY <1>5, <1>14, SameCoreFacts
<1>16. CacheRight(w, K, f)
  <2>1. \A b \in Records(w, K) : b > w.journalHdr => w.cache[K[b].pgno].sync
    <3>1. \A b \in Records(g, K) : K[b].pgno # p /\ K[b].pgno \in DOMAIN g.cache
      BY <1>14 DEF RecordsRight, CacheRight
    <3>2. QED
      BY <1>5, <1>6, <1>14, <1>15, <1>6b, <3>1 DEF CacheRight, SameCore
  <2>2. \A q \in DOMAIN w.cache : ~w.cache[q].dirty /\ q <= w.dbSize => q <= Len(f)
    BY <1>5, <1>6, <1>6b, <1>14 DEF CacheRight
  <2>3. w.eState = "CACHEMOD" =>
          /\ Len(f) = w.dbOrigSize
          /\ \A q \in DOMAIN w.cache : q \in w.pInJournal \/ q > w.dbOrigSize => w.cache[q].dirty
    BY <1>5, <1>6, <1>14, <1>6b DEF CacheRight, SameCore
  <2>4. QED
    BY <1>5, <1>6, <1>14, <2>1, <2>2, <2>3 DEF CacheRight, SameCore
<1>17. OwnRecords => ContentRight(w, K, f)
  <2> SUFFICES ASSUME OwnRecords PROVE ContentRight(w, K, f)
    OBVIOUS
  <2>1. ContentRight(g, K, f)
    BY <1>14
  <2>2. d = f[p]
    <3>1. CASE p \in DOMAIN g.cache
      BY <2>1, <3>1 DEF ContentRight, Get, d
    <3>2. CASE p \notin DOMAIN g.cache
      BY <1>3, <3>2 DEF Get, d
    <3>3. QED
      BY <3>1, <3>2
  <2>3. w.cache[p].data = f[p] /\ w.cache[p].dirty
    BY <1>6, <1>6b, <2>2
  <2>4. QED
    BY <1>5, <1>6, <1>15, <2>1, <2>3 DEF ContentRight, SameCore
<1>18. K[g.journalHdr + 1] = J[g.journalHdr + 1]
  <2>1. h + 1 \in 1 .. last
    BY <1>1
  <2>2. QED
    BY <1>12, <2>1 DEF h
<1>19. QED
  BY <1>1, <1>2, <1>5, <1>7, <1>11, <1>15, <1>16, <1>17, <1>18 DEF SameCore, h

\* A statement that fails in pager_open_journal or in the write of a record keeps the invariant.
LEMMA ChangeFailsRight ==
    ASSUME WholeInv, ChangeFails
    PROVE  WholeInv'
<1> DEFINE o == JournalOpened(pager, jrnl.vis)
<1>1. PICK p \in 1 .. nPage \ pager.pInJournal :
          /\ p <= pager.dbOrigSize
          /\ \/ /\ pager' = [o.g EXCEPT !.cache = Cached(@, p, Content(p), TRUE, TRUE)]
                /\ jrnl' = Seen(jrnl, Put(o.J, o.g.journalOff + 1, Junk))
             \/ pager.eState = "LOCKED" /\ pager' = [pager EXCEPT !.jfd = TRUE] /\ jrnl' = jrnl
  BY DEF ChangeFails
<1>2. /\ pc = Idle /\ pager.eState \in {"LOCKED", "CACHEMOD", "DBMOD"} /\ ver < MaxVersion /\ ver' = ver + 1
      /\ db' = db /\ gone' = gone /\ pc' = At("mustRollBack", "none") /\ faults' = faults + 1 /\ setting' = setting
  BY DEF ChangeFails, InStatement, Fresh, MayFail
<1>3. /\ Sizes /\ ver \in Nat /\ ver <= MaxVersion /\ faults \in Nat /\ MaxVersion \in Nat /\ Len(jrnl.safe) \in Nat
      /\ PagerType(pager) /\ DOMAIN pager = Fields /\ DataFile(db.vis)
  BY Bounds DEF WholeInv, Basics
<1>4. /\ InWork(pager, jrnl.vis, db.vis, jrnl.safe) /\ nPage \in 0 .. MaxPages
  BY <1>2, WorkNow
<1>5. p \in 1 .. pager.dbOrigSize /\ p \notin pager.pInJournal
  <2>1. pager.dbOrigSize \in Nat
    BY <1>3 DEF PagerType, Sizes
  <2>2. QED
    BY <1>1, <1>4, <2>1
<1>6. CASE pager' = [o.g EXCEPT !.cache = Cached(@, p, Content(p), TRUE, TRUE)]
           /\ jrnl' = Seen(jrnl, Put(o.J, o.g.journalOff + 1, Junk))
  <2> DEFINE K == Put(o.J, o.g.journalOff + 1, Junk)
  <2>1. /\ Ready(o.g, o.J, db.vis, jrnl.safe, ver + 1)
        /\ o.g.cache = pager.cache /\ o.g.dbSize = pager.dbSize /\ o.g.dbOrigSize = pager.dbOrigSize
        /\ p \notin o.g.pInJournal
    <3>1. CASE pager.eState = "LOCKED"
      <4>1. Start(pager, jrnl.vis, db.vis)
        BY <1>4, <3>1 DEF InWork, Ready
      <4>2. Ready(o.g, o.J, db.vis, jrnl.safe, ver + 1) /\ o.g.cache = pager.cache /\ o.g.dbSize = pager.dbSize
        BY <1>3, <4>1, OpenedReady
      <4>3. o.g.pInJournal = {} /\ o.g.dbOrigSize = pager.dbOrigSize
        BY <1>3, <3>1 DEF JournalOpened, Fields
      <4>4. QED
        BY <4>2, <4>3
    <3>2. CASE pager.eState # "LOCKED"
      <4>1. o.g = pager /\ o.J = jrnl.vis
        BY <3>2 DEF JournalOpened
      <4>2. Ready(pager, jrnl.vis, db.vis, jrnl.safe, ver + 1)
        BY <1>4, <3>2 DEF InWork, Start
      <4>3. QED
        BY <1>5, <4>1, <4>2
    <3>3. QED
      BY <3>1, <3>2
  <2>2. Content(p) = Get(o.g.cache, db.vis, o.g.dbSize, p)
    BY <2>1 DEF Content
  <2>3. jrnl'.vis = K /\ jrnl'.safe = jrnl.safe
    BY <1>6 DEF Seen
  <2>4. pager' = [o.g EXCEPT !.cache = Cached(@, p, Content(p), TRUE, TRUE)]
    BY <1>6
  <2> HIDE DEF K, o
  <2> DEFINE w == pager'
             v == ver + 1
             f == db.vis
             safe == jrnl.safe
             g == o.g
             J == o.J
  <2>5. /\ Ready(g, J, f, safe, v) /\ v \in Nat /\ p \in 1 .. g.dbOrigSize /\ p \notin g.pInJournal
        /\ TornWrite(g, J, f, w, K, p)
    BY <1>3, <1>5, <2>1, <2>2, <2>4 DEF K, TornWrite
  <2> HIDE DEF w, v, f, safe, g, J
  <2>6. /\ PagerType(w) /\ JournalFile(K, v) /\ Layout(w, K) /\ RecordsRight(w, K) /\ SyncedRight(w, K, safe)
        /\ CacheRight(w, K, f) /\ (OwnRecords => ContentRight(w, K, f))
        /\ w.header = g.journalHdr + 1 /\ w.journalHdr = g.journalHdr /\ w.eState = g.eState /\ w.nonce = g.nonce
        /\ ~K[g.journalHdr + 1].magic /\ K[g.journalHdr + 1].n = 0
    BY <1>3, <2>5, FailedWrite
  <2>7. /\ PagerType(pager') /\ JournalFile(jrnl'.vis, ver') /\ Layout(pager', jrnl'.vis) /\ RecordsRight(pager', jrnl'.vis)
        /\ SyncedRight(pager', jrnl'.vis, jrnl'.safe)
        /\ CacheRight(pager', jrnl'.vis, db'.vis) /\ (OwnRecords => ContentRight(pager', jrnl'.vis, db'.vis))
    BY <1>2, <2>3, <2>6 DEF w, v, f, safe
  <2>8. /\ pager'.eState \in {"CACHEMOD", "DBMOD"} /\ pager'.nonce < ver + 1
    BY <2>5, <2>6 DEF Ready, w, v
  <2>9. pager'.nonce <= ver'
    BY <1>2, <1>3, <2>7, <2>8 DEF PagerType
  <2>10. ~jrnl'.vis[pager'.journalHdr + 1].magic /\ jrnl'.vis[pager'.journalHdr + 1].n = 0
    BY <2>3, <2>6 DEF w
  <2>11. db'.safe = db.safe /\ DataFile(db'.vis)
    BY <1>2, <1>3
  <2>12. QED
    BY <1>2, <2>3, <2>7, <2>8, <2>9, <2>10, <2>11, MustRollBackRight
<1>7. CASE pager.eState = "LOCKED" /\ pager' = [pager EXCEPT !.jfd = TRUE] /\ jrnl' = jrnl
  <2> DEFINE w == [pager EXCEPT !.jfd = TRUE]
  <2>1. pager' = w
    BY <1>7
  <2>2. /\ DOMAIN w = Fields /\ w.eState = "LOCKED" /\ w.jfd = TRUE
        /\ w.dbSize = pager.dbSize /\ w.dbOrigSize = pager.dbOrigSize /\ w.journalHdr = pager.journalHdr
        /\ w.dbFileSize = pager.dbFileSize /\ w.cache = pager.cache /\ w.nRec = pager.nRec
        /\ w.journalOff = pager.journalOff /\ w.header = pager.header /\ w.nonce = pager.nonce
        /\ w.pInJournal = pager.pInJournal /\ w.aSavepoint = pager.aSavepoint /\ w.sub = pager.sub
    BY <1>3, <1>7 DEF Fields
  <2> HIDE DEF w
  <2>3. PagerType(w)
    <3>1. w.jfd \in BOOLEAN
      BY <2>2
    <3>2. QED
      BY <1>3, <1>7, <2>2, <3>1 DEF PagerType
  <2>4. OwnRecords' => OwnRecords
    BY <1>2, <1>3, CarriedOwn
  <2>5. DOMAIN pc' = {"at", "task", "page"} /\ pc'.at = "mustRollBack" /\ pc'.task = "none"
    BY <1>2 DEF At
  <2>6. ver' \in Nat /\ ver <= ver' /\ ver' <= MaxVersion /\ faults' \in Nat
    BY <1>2, <1>3
  <2>7. /\ JournalFile(jrnl.vis, ver') /\ JournalFile(jrnl.safe, ver') /\ JournalFile(gone.vis, ver')
        /\ JournalFile(gone.safe, ver') /\ DataFile(db.safe) /\ setting \in Settings /\ pager.nonce <= ver
    BY <1>3, <2>6, OlderBlocks DEF WholeInv, Basics
  <2>8. w.nonce <= ver'
    BY <1>3, <2>2, <2>6, <2>7 DEF PagerType
  <2>9. Basics'
    BY <1>2, <1>3, <1>7, <2>1, <2>3, <2>5, <2>6, <2>7, <2>8, BasicsRight
  <2>10. Flow' /\ OpenRight' /\ ReaderRight' /\ WriterRight'
    BY <2>1, <2>2, <2>5 DEF Flow, OpenRight, ReaderRight, WriterRight, Opened3
  <2>11. Begun(pager, jrnl.vis, db.vis) /\ pager.dbSize > 0
    BY <1>7 DEF WholeInv, LockedRight
  <2>12. Begun(w, jrnl.vis, db.vis)
    BY <2>2, <2>11 DEF Begun, Reliable, PagesOf, SavesFresh
  <2>13. LockedRight'
    BY <1>2, <1>7, <2>1, <2>2, <2>4, <2>11, <2>12, CarriedContent DEF LockedRight
  <2>14. QED
    BY <2>9, <2>10, <2>13 DEF WholeInv
<1>8. QED
  BY <1>1, <1>6, <1>7

\* The savepoints of a pager whose journal gets other blocks behind its records.
LEMMA SavesTail ==
    ASSUME NEW g, PagerType(g), NEW J, NEW v, JournalFile(J, v), NEW f, Layout(g, J), SavesRight(g, J, f), g.header # 0,
           NEW K, SameBlocks(g, J, K), Records(g, K) = Records(g, J), \A b \in Records(g, J) : K[b] = J[b],
           K[g.header].kind = "hdr"
    PROVE  SavesRight(g, K, f)
<1>1. /\ g.journalHdr \in Nat /\ g.nRec \in Nat /\ g.header = g.journalHdr + 1
      /\ LastOf(g) = g.journalHdr + 1 + g.nRec /\ LastOf(g) \in Nat
      /\ g.aSavepoint \in Seq(Save)
  BY DEF PagerType, Layout, LastOf
<1>2. \A i \in 1 .. g.journalHdr : K[i] = J[i]
  <2>1. \A i \in 1 .. g.journalHdr : i \in 1 .. LastOf(g) /\ i # g.header
    BY <1>1
  <2>2. QED
    BY <2>1 DEF SameBlocks, NewHeader
<1>3. ASSUME NEW i \in 1 .. Len(g.aSavepoint) PROVE SaveRight(g, K, f, g.aSavepoint[i])
  <2> DEFINE sp == g.aSavepoint[i]
  <2>1. SaveRight(g, J, f, sp) /\ sp.iOffset \in Nat /\ sp.iHdrOffset \in Nat
    <3>1. sp \in Save
      BY <1>1
    <3>2. QED
      BY <3>1 DEF SavesRight, Save
  <2> HIDE DEF sp
  <2>2. MainOne(g, K, sp) = MainOne(g, J, sp) /\ \A b \in MainOne(g, J, sp) : K[b] = J[b]
    BY DEF MainOne
  <2>3. FirstOne(g, K, f, sp)
    BY <2>1, <2>2 DEF SaveRight, FirstOne
  <2>4. ASSUME /\ sp.iOffset <= sp.iHdrOffset /\ sp.iHdrOffset <= g.journalHdr
               /\ \A m \in sp.iOffset + 1 .. sp.iHdrOffset : J[m].kind = "rec"
               /\ J[sp.iHdrOffset + 1].kind = "hdr"
        PROVE  /\ \A m \in sp.iOffset + 1 .. sp.iHdrOffset : K[m].kind = "rec"
               /\ K[sp.iHdrOffset + 1].kind = "hdr"
    <3>1. \A m \in sp.iOffset + 1 .. sp.iHdrOffset : K[m] = J[m]
      BY <1>1, <1>2, <2>1, <2>4
    <3>2. sp.iHdrOffset + 1 = g.header \/ sp.iHdrOffset + 1 \in 1 .. g.journalHdr
      BY <1>1, <2>1, <2>4
    <3>3. QED
      BY <1>2, <2>4, <3>1, <3>2
  <2>5. SaveRight(g, K, f, sp)
    BY <2>1, <2>3, <2>4 DEF SaveRight
  <2>6. QED
    BY <2>5 DEF sp
<1>4. QED
  BY <1>3 DEF SavesRight

\* What a failed statement or commit leaves for the roll back.
CanRollBack(g, J, f, safe) ==
    /\ g.eState \in {"CACHEMOD", "DBMOD"}
    /\ Layout(g, J) /\ RecordsRight(g, J) /\ SyncedRight(g, J, safe)
    /\ CacheRight(g, J, f) /\ (OwnRecords => ContentRight(g, J, f))
    /\ g.header # 0 =>
          \/ ~J[g.journalHdr + 1].magic /\ J[g.journalHdr + 1].n = 0
          \/ J[g.journalHdr + 1].magic /\ J[g.journalHdr + 1].n = g.nRec /\ ~MagicAt(J, LastOf(g) + 1)

\* A call that fails leaves a pager to roll back or in the ERROR state.
LEMMA FailedRight ==
    ASSUME WholeInv, setting' = setting, gone' = gone, ver' = ver, db'.safe = db.safe, jrnl'.safe = jrnl.safe,
           DataFile(db'.vis), JournalFile(jrnl'.vis, ver), MayFail, NEW g, Failed(g), PagerType(g), g.nonce <= ver,
           pc.task = "commit" => CanRollBack(g, jrnl'.vis, db'.vis, jrnl.safe)
    PROVE  WholeInv'
<1>1. Sizes /\ ver \in Nat /\ ver <= MaxVersion /\ MaxVersion \in Nat /\ faults \in Nat
  BY Bounds
<1>2. /\ JournalFile(jrnl.safe, ver) /\ JournalFile(gone.vis, ver) /\ JournalFile(gone.safe, ver)
      /\ DataFile(db.safe) /\ setting \in Settings
  BY DEF WholeInv, Basics
<1>3. faults' = faults + 1 /\ faults' \in Nat
  BY <1>1 DEF MayFail
<1>4. DOMAIN Idle = {"at", "task", "page"} /\ Idle.task = "none" /\ Idle.at = "idle"
  BY DEF Idle
<1>5. CASE pc.task = "commit"
  <2>1. pager' = g /\ pc' = At("mustRollBack", "none")
    BY <1>5 DEF Failed
  <2>2. CanRollBack(pager', jrnl'.vis, db'.vis, jrnl'.safe)
    BY <1>5, <2>1
  <2>3. /\ PagerType(pager') /\ pager'.nonce <= ver' /\ JournalFile(jrnl'.vis, ver')
    BY <2>1
  <2>4. QED
    BY <1>3, <2>1, <2>2, <2>3, MustRollBackRight DEF CanRollBack
<1>6. CASE pc.task = "recover"
  <2>1. pager' = Unlocked(Error(g)) /\ pc' = Idle
    BY <1>6 DEF Failed
  <2>2. PagerType(Error(g)) /\ Error(g).eState = "ERROR"
    BY ErrorFacts
  <2>3. /\ PagerType(pager') /\ pager'.eState = "OPEN" /\ pager'.nonce = 0 /\ pager'.pInJournal = {} /\ pager'.sub = <<>>
        /\ pager'.header = 0 /\ pager'.aSavepoint = <<>> /\ pager'.cache = <<>>
    BY <1>1, <2>1, <2>2, UnlockedFacts
  <2>4. Basics'
    BY <1>1, <1>2, <1>3, <1>4, <2>1, <2>3, BasicsRight
  <2>5. Flow' /\ ReaderRight' /\ LockedRight' /\ WriterRight'
    BY <2>1, <2>3 DEF Flow, ReaderRight, LockedRight, WriterRight, Opened3
  <2>6. OpenRight'
    BY <1>4, <2>1, <2>3 DEF OpenRight, Reliable
  <2>7. QED
    BY <2>4, <2>5, <2>6 DEF WholeInv
<1>7. CASE pc.task # "commit" /\ pc.task # "recover"
  <2>1. pager' = Error(g) /\ pc' = Idle
    BY <1>7 DEF Failed
  <2>2. PagerType(pager') /\ pager'.eState = "ERROR" /\ pager'.nonce <= ver'
    BY <2>1, ErrorFacts
  <2>3. Basics'
    BY <1>1, <1>2, <1>3, <1>4, <2>1, <2>2, BasicsRight
  <2>4. QED
    BY <2>1, <2>2, <2>3, ErrorRight
<1>8. QED
  BY <1>5, <1>6, <1>7

\* A commit or spill that has not yet synced its journal.
LEMMA SyncingFacts ==
    ASSUME WholeInv, pc.at \in {"syncRecords", "writeCount", "syncCount"}
    PROVE  /\ pc.task \in {"spill", "commit"} /\ pager.eState \in {"CACHEMOD", "DBMOD"} /\ pager.header # 0
           /\ Layout(pager, jrnl.vis) /\ RecordsRight(pager, jrnl.vis) /\ SyncedRight(pager, jrnl.vis, jrnl.safe)
           /\ CacheRight(pager, jrnl.vis, db.vis) /\ (OwnRecords => ContentRight(pager, jrnl.vis, db.vis))
           /\ Stage /\ SavesRight(pager, jrnl.vis, db.vis) /\ PagesOf(pager, db.vis) <= pager.dbSize /\ pager.dbSize > 0
           /\ pager.journalOff = LastOf(pager)
           /\ pager.journalHdr \in Nat /\ pager.nRec \in Nat /\ pager.header = pager.journalHdr + 1
           /\ LastOf(pager) = pager.journalHdr + 1 + pager.nRec /\ LastOf(pager) \in Nat
           /\ LastOf(pager) <= Len(jrnl.vis) /\ InProgressRight(pager, jrnl.vis)
           /\ IF pc.at = "syncCount" THEN jrnl.vis[pager.header].magic /\ jrnl.vis[pager.header].n = pager.nRec
                                     ELSE ~jrnl.vis[pager.header].magic /\ jrnl.vis[pager.header].n = 0
           /\ pc.at # "syncRecords" => ~MagicAt(jrnl.vis, LastOf(pager) + 1)
<1>1. /\ pc.task \in {"spill", "commit"} /\ pager.eState \in {"CACHEMOD", "DBMOD"} /\ pager.header # 0
  BY DEF WholeInv, Flow, Idle
<1>2. /\ Layout(pager, jrnl.vis) /\ RecordsRight(pager, jrnl.vis) /\ SyncedRight(pager, jrnl.vis, jrnl.safe)
      /\ CacheRight(pager, jrnl.vis, db.vis) /\ (OwnRecords => ContentRight(pager, jrnl.vis, db.vis))
      /\ Stage /\ SavesRight(pager, jrnl.vis, db.vis) /\ PagesOf(pager, db.vis) <= pager.dbSize /\ pager.dbSize > 0
  BY <1>1 DEF WholeInv, WriterRight, Opened3
<1>3. PagerType(pager)
  BY Bounds
<1>4. /\ pager.journalHdr \in Nat /\ pager.nRec \in Nat /\ pager.header = pager.journalHdr + 1
      /\ LastOf(pager) = pager.journalHdr + 1 + pager.nRec /\ LastOf(pager) \in Nat
      /\ LastOf(pager) <= Len(jrnl.vis) /\ InProgressRight(pager, jrnl.vis)
  BY <1>1, <1>2, <1>3 DEF Layout, PagerType, LastOf
<1>5. /\ pager.journalOff = LastOf(pager)
      /\ IF pc.at = "syncCount" THEN jrnl.vis[pager.header].magic /\ jrnl.vis[pager.header].n = pager.nRec
                                ELSE ~jrnl.vis[pager.header].magic /\ jrnl.vis[pager.header].n = 0
      /\ pc.at # "syncRecords" => ~MagicAt(jrnl.vis, LastOf(pager) + 1)
  BY <1>1, <1>2, <1>4 DEF Stage
<1>6. QED
  BY <1>1, <1>2, <1>4, <1>5

\* The next step of a commit or spill whose pager is as it was.
LEMMA SyncingRight ==
    ASSUME WholeInv, pc.at \in {"syncRecords", "writeCount"}, pager' = pager, db' = db, setting' = setting, ver' = ver,
           faults' = faults, JournalFile(jrnl'.vis, ver), JournalFile(jrnl'.safe, ver), gone' \in {gone, NoFile},
           DOMAIN pc' = {"at", "task", "page"}, pc'.at \in {"writeCount", "syncCount"}, pc'.task = pc.task, pc'.page = pc.page,
           SameBlocks(pager, jrnl.vis, jrnl'.vis),
           \A m \in LastOf(pager) + 1 .. Len(jrnl'.vis) : ~Good(jrnl'.vis, m, pager.nonce),
           jrnl'.vis[pager.header].kind = "hdr",
           SyncedRight(pager, jrnl.vis, jrnl'.safe), ~MagicAt(jrnl'.vis, LastOf(pager) + 1),
           IF pc'.at = "syncCount" THEN jrnl'.vis[pager.header].magic /\ jrnl'.vis[pager.header].n = pager.nRec
                                   ELSE ~jrnl'.vis[pager.header].magic /\ jrnl'.vis[pager.header].n = 0
    PROVE  WholeInv'
<1> DEFINE J == jrnl.vis
           K == jrnl'.vis
           f == db.vis
<1>1. Sizes /\ ver \in Nat /\ ver <= MaxVersion /\ MaxVersion \in Nat /\ faults \in Nat /\ PagerType(pager)
  BY Bounds
<1>2. /\ JournalFile(J, ver) /\ JournalFile(gone.vis, ver) /\ JournalFile(gone.safe, ver)
      /\ DataFile(db.safe) /\ DataFile(db.vis) /\ setting \in Settings /\ pager.nonce <= ver
  BY DEF WholeInv, Basics
<1>3. OwnRecords' => OwnRecords
  BY <1>1, CarriedOwn
<1>4. /\ pc.task \in {"spill", "commit"} /\ pager.eState \in {"CACHEMOD", "DBMOD"} /\ pager.header # 0
      /\ Layout(pager, J) /\ RecordsRight(pager, J)
      /\ CacheRight(pager, J, f) /\ (OwnRecords => ContentRight(pager, J, f))
      /\ Stage /\ SavesRight(pager, J, f) /\ PagesOf(pager, f) <= pager.dbSize /\ pager.dbSize > 0
      /\ pager.journalOff = LastOf(pager) /\ pager.header = pager.journalHdr + 1
  BY SyncingFacts
<1>5. JournalFile(<<>>, ver) /\ NoFile.vis = <<>> /\ NoFile.safe = <<>>
  <2>1. Len(<<>>) = 0 /\ <<>> = [k \in 1 .. 0 |-> <<>>[k]]
    OBVIOUS
  <2>2. Numbered(<<>>)
    BY <2>1 DEF Numbered
  <2>3. QED
    BY <2>1, <2>2 DEF JournalFile, NoFile
<1>6. JournalFile(gone'.vis, ver) /\ JournalFile(gone'.safe, ver)
  BY <1>2, <1>5
<1>7. Basics'
  BY <1>1, <1>2, <1>6, BasicsRight
<1>8. Flow' /\ OpenRight' /\ ReaderRight' /\ LockedRight'
  BY <1>4 DEF Flow, OpenRight, ReaderRight, LockedRight
<1>9. /\ Layout(pager, K) /\ Records(pager, K) = Records(pager, J) /\ RecordsRight(pager, K)
      /\ \A b \in Records(pager, J) : K[b] = J[b]
      /\ SyncedRight(pager, K, jrnl'.safe) /\ CacheRight(pager, K, f) /\ (OwnRecords => ContentRight(pager, K, f))
  <2>1. K = jrnl'.vis
    OBVIOUS
  <2> HIDE DEF K, J
  <2>2. /\ Layout(pager, K) /\ Records(pager, K) = Records(pager, J)
        /\ \A b \in Records(pager, J) : K[b] = J[b]
        /\ RecordsRight(pager, J) => RecordsRight(pager, K)
        /\ \A x : SyncedRight(pager, J, x) => SyncedRight(pager, K, x)
        /\ \A x : CacheRight(pager, J, x) => CacheRight(pager, K, x)
        /\ \A x : ContentRight(pager, J, x) => ContentRight(pager, K, x)
    BY <1>1, <1>2, <1>4, <2>1, OtherTail DEF J
  <2>3. SyncedRight(pager, J, jrnl'.safe)
    BY DEF J
  <2>4. QED
    BY <1>4, <2>2, <2>3
<1>10. SavesRight(pager, K, f)
  BY <1>1, <1>2, <1>4, <1>9, SavesTail
<1>11. Stage'
  BY <1>4 DEF Stage
<1>12. WriterRight'
  BY <1>3, <1>4, <1>9, <1>10, <1>11 DEF WriterRight
<1>13. QED
  BY <1>7, <1>8, <1>12 DEF WholeInv

\* The first sync of syncJournal keeps the invariant.
LEMMA SyncRecordsRight ==
    ASSUME WholeInv, SyncRecords
    PROVE  WholeInv'
<1> DEFINE J == jrnl.vis
           K == NoStaleHeader(J)
           next == LastOf(pager) + 1
<1>1. /\ pc.at = "syncRecords" /\ db' = db /\ ver' = ver /\ setting' = setting
      /\ \/ /\ jrnl' = [vis |-> K, safe |-> IF FullSync THEN K ELSE jrnl.safe]
            /\ gone' = IF FullSync THEN NoFile ELSE gone
            /\ Goto("writeCount") /\ pager' = pager /\ faults' = faults
         \/ MayFail /\ Failed(pager) /\ jrnl' = Seen(jrnl, K) /\ gone' = gone
  BY DEF SyncRecords
<1>2. /\ pc.task \in {"spill", "commit"} /\ pager.eState \in {"CACHEMOD", "DBMOD"} /\ pager.header # 0
      /\ Layout(pager, J) /\ RecordsRight(pager, J) /\ SyncedRight(pager, J, jrnl.safe)
      /\ CacheRight(pager, J, db.vis) /\ (OwnRecords => ContentRight(pager, J, db.vis))
      /\ pager.journalOff = LastOf(pager)
      /\ pager.journalHdr \in Nat /\ pager.nRec \in Nat /\ pager.header = pager.journalHdr + 1
      /\ LastOf(pager) = pager.journalHdr + 1 + pager.nRec /\ LastOf(pager) \in Nat
      /\ LastOf(pager) <= Len(J) /\ InProgressRight(pager, J)
      /\ ~J[pager.header].magic /\ J[pager.header].n = 0
  BY <1>1, SyncingFacts
<1>3. /\ JournalFile(J, ver) /\ JournalFile(jrnl.safe, ver) /\ pager.nonce <= ver /\ PagerType(pager) /\ DataFile(db.vis)
      /\ DOMAIN pc = {"at", "task", "page"}
  BY DEF WholeInv, Basics
<1>4. Numbered(J) /\ Len(J) \in Nat /\ DOMAIN J = 1 .. Len(J)
  BY <1>3 DEF JournalFile, Numbered
<1>5. /\ Numbered(K) /\ Len(K) = Len(J) /\ JournalFile(K, ver)
      /\ \A i \in 1 .. Len(J) : i # next => K[i] = J[i]
      /\ next <= Len(J) => K[next].kind = J[next].kind /\ (K[next].kind = "hdr" => ~K[next].magic)
      /\ (next <= Len(J) /\ J[next].kind = "hdr") \/ K = J
  <2>1. CASE next <= Len(J) /\ J[next].kind = "hdr"
    <3> DEFINE b == [J[next] EXCEPT !.magic = FALSE]
    <3>1. K = [J EXCEPT ![next].magic = FALSE]
      BY <1>2, <2>1 DEF NoStaleHeader
    <3>2. K = [J EXCEPT ![next] = b]
      BY <3>1
    <3>3. next \in 1 .. Len(J)
      BY <1>2, <2>1
    <3>4. IsBlock(b, ver) /\ b.kind = "hdr" /\ (b.kind = "hdr" => ~b.magic)
      <4>1. IsBlock(J[next], ver)
        BY <1>3, <3>3 DEF JournalFile
      <4>2. /\ "magic" \in DOMAIN J[next] => b.magic = FALSE
            /\ DOMAIN b = DOMAIN J[next] /\ b.kind = J[next].kind /\ b.n = J[next].n /\ b.nonce = J[next].nonce /\ b.orig = J[next].orig
        OBVIOUS
      <4>3. QED
        BY <2>1, <4>1, <4>2 DEF IsBlock
    <3> HIDE DEF b
    <3>5. /\ DOMAIN K = 1 .. Len(J) /\ K[next] = b /\ \A i \in 1 .. Len(J) : i # next => K[i] = J[i]
      BY <1>4, <3>2, <3>3
    <3> HIDE DEF K, J, next
    <3>6. Numbered(K) /\ Len(K) = Len(J)
      <4>1. K = [k \in 1 .. Len(J) |-> K[k]]
        BY <3>2, <1>4 DEF Numbered
      <4>2. QED
        BY <1>4, <4>1, LenOf DEF Numbered
    <3>7. JournalFile(K, ver)
      <4>1. \A i \in 1 .. Len(J) : IsBlock(J[i], ver)
        BY <1>3 DEF JournalFile
      <4>2. \A i \in 1 .. Len(K) : IsBlock(K[i], ver)
        BY <3>4, <3>5, <3>6, <4>1
      <4>3. QED
        BY <3>6, <4>2 DEF JournalFile
    <3>8. QED
      BY <2>1, <3>4, <3>5, <3>6, <3>7
  <2>2. CASE ~(next <= Len(J) /\ J[next].kind = "hdr")
    <3>1. K = J
      BY <1>2, <2>2 DEF NoStaleHeader
    <3>2. QED
      BY <1>3, <1>4, <2>2, <3>1
  <2>3. QED
    BY <2>1, <2>2
<1> HIDE DEF K
<1>6. SameBlocks(pager, J, K) /\ K[pager.header] = J[pager.header]
  <2>1. \A i \in 1 .. LastOf(pager) : i \in 1 .. Len(J) /\ i # next
    BY <1>2, <1>4
  <2>2. pager.header \in 1 .. LastOf(pager)
    BY <1>2
  <2>3. QED
    BY <1>2, <1>5, <2>1, <2>2 DEF SameBlocks
<1>7. \A m \in LastOf(pager) + 1 .. Len(K) : ~Good(K, m, pager.nonce)
  <2>1. \A m \in LastOf(pager) + 1 .. Len(J) : ~Good(J, m, pager.nonce)
    BY <1>2 DEF InProgressRight
  <2>2. ASSUME NEW m \in LastOf(pager) + 1 .. Len(K) PROVE K[m] = J[m] \/ (K[m].kind = J[m].kind /\ K[m].kind = "hdr")
    <3>1. m \in 1 .. Len(J)
      BY <1>2, <1>4, <1>5
    <3>2. CASE m # next
      BY <1>5, <3>1, <3>2
    <3>3. CASE m = next /\ J[next].kind = "hdr"
      BY <1>5, <3>1, <3>3
    <3>4. CASE m = next /\ J[next].kind # "hdr"
      BY <1>5, <3>1, <3>4
    <3>5. QED
      BY <3>2, <3>3, <3>4
  <2>3. QED
    BY <1>5, <2>1, <2>2 DEF Good
<1>8. ~MagicAt(K, LastOf(pager) + 1)
  BY <1>5 DEF MagicAt
<1>9. CASE /\ jrnl' = [vis |-> K, safe |-> IF FullSync THEN K ELSE jrnl.safe]
           /\ gone' = IF FullSync THEN NoFile ELSE gone
           /\ Goto("writeCount") /\ pager' = pager /\ faults' = faults
  <2>1. jrnl'.vis = K /\ jrnl'.safe \in {K, jrnl.safe} /\ gone' \in {gone, NoFile}
    BY <1>9
  <2>2. /\ DOMAIN pc' = {"at", "task", "page"} /\ pc'.at = "writeCount" /\ pc'.task = pc.task /\ pc'.page = pc.page
    BY <1>3, <1>9 DEF Goto
  <2>3. SyncedRight(pager, J, jrnl'.safe)
    <3>1. SyncedRight(pager, J, K)
      <4>1. \A i \in 1 .. pager.journalHdr : K[i] = J[i]
        <5>1. \A i \in 1 .. pager.journalHdr : i \in 1 .. Len(J) /\ i # next
          BY <1>2, <1>4
        <5>2. QED
          BY <1>5, <5>1
      <4>2. ~MagicAt(K, pager.journalHdr + 1)
        BY <1>2, <1>6 DEF MagicAt
      <4>3. QED
        BY <1>2, <1>4, <1>5, <4>1, <4>2 DEF SyncedRight
    <3>2. QED
      BY <1>2, <2>1, <3>1
  <2>4. JournalFile(jrnl'.vis, ver) /\ JournalFile(jrnl'.safe, ver)
    BY <1>3, <1>5, <2>1
  <2>5. jrnl'.vis[pager.header].kind = "hdr" /\ ~jrnl'.vis[pager.header].magic /\ jrnl'.vis[pager.header].n = 0
    BY <1>2, <1>6, <2>1 DEF InProgressRight
  <2>6. /\ SameBlocks(pager, jrnl.vis, jrnl'.vis) /\ ~MagicAt(jrnl'.vis, LastOf(pager) + 1)
        /\ SyncedRight(pager, jrnl.vis, jrnl'.safe)
        /\ \A m \in LastOf(pager) + 1 .. Len(jrnl'.vis) : ~Good(jrnl'.vis, m, pager.nonce)
    BY <1>6, <1>7, <1>8, <2>1, <2>3
  <2> HIDE DEF J, next
  <2>7. QED
    BY <1>1, <1>9, <2>1, <2>2, <2>4, <2>5, <2>6, SyncingRight
<1>10. CASE MayFail /\ Failed(pager) /\ jrnl' = Seen(jrnl, K) /\ gone' = gone
  <2>1. jrnl'.vis = K /\ jrnl'.safe = jrnl.safe
    BY <1>10 DEF Seen
  <2>2. /\ Layout(pager, K) /\ RecordsRight(pager, K)
        /\ SyncedRight(pager, K, jrnl.safe) /\ CacheRight(pager, K, db.vis) /\ (OwnRecords => ContentRight(pager, K, db.vis))
    <3> HIDE DEF J, next
    <3>1. JournalFile(J, ver)
      BY <1>3
    <3>2. /\ Layout(pager, K)
          /\ RecordsRight(pager, J) => RecordsRight(pager, K)
          /\ \A x : SyncedRight(pager, J, x) => SyncedRight(pager, K, x)
          /\ \A x : CacheRight(pager, J, x) => CacheRight(pager, K, x)
          /\ \A x : ContentRight(pager, J, x) => ContentRight(pager, K, x)
      BY <1>2, <1>3, <1>5, <1>6, <1>7, <3>1, OtherTail
    <3>3. QED
      BY <1>2, <3>2
  <2>3. ~K[pager.journalHdr + 1].magic /\ K[pager.journalHdr + 1].n = 0
    BY <1>2, <1>6
  <2>4. CanRollBack(pager, jrnl'.vis, db'.vis, jrnl.safe)
    BY <1>1, <1>2, <2>1, <2>2, <2>3 DEF CanRollBack
  <2>5. DataFile(db'.vis) /\ JournalFile(jrnl'.vis, ver) /\ db'.safe = db.safe
    BY <1>1, <1>3, <1>5, <2>1
  <2> HIDE DEF J, next
  <2>6. QED
    BY <1>1, <1>3, <1>10, <2>1, <2>4, <2>5, FailedRight
<1>11. QED
  BY <1>1, <1>9, <1>10

\* The write of the record count keeps the invariant.
LEMMA WriteCountRight ==
    ASSUME WholeInv, WriteCount
    PROVE  WholeInv'
<1> DEFINE J == jrnl.vis
           H == Header(TRUE, pager.nRec, pager.nonce, pager.dbOrigSize)
           i == pager.journalHdr + 1
           K == Put(J, i, H)
<1>1. /\ pc.at = "writeCount" /\ db' = db /\ gone' = gone /\ ver' = ver /\ setting' = setting
      /\ \/ jrnl' = Seen(jrnl, K) /\ Goto("syncCount") /\ pager' = pager /\ faults' = faults
         \/ MayFail /\ Failed(pager) /\ jrnl' = jrnl
  BY DEF WriteCount
<1>2. /\ pc.task \in {"spill", "commit"} /\ pager.eState \in {"CACHEMOD", "DBMOD"} /\ pager.header # 0
      /\ Layout(pager, J) /\ RecordsRight(pager, J) /\ SyncedRight(pager, J, jrnl.safe)
      /\ CacheRight(pager, J, db.vis) /\ (OwnRecords => ContentRight(pager, J, db.vis))
      /\ pager.journalOff = LastOf(pager)
      /\ pager.journalHdr \in Nat /\ pager.nRec \in Nat /\ pager.header = pager.journalHdr + 1
      /\ LastOf(pager) = pager.journalHdr + 1 + pager.nRec /\ LastOf(pager) \in Nat
      /\ LastOf(pager) <= Len(J) /\ InProgressRight(pager, J)
      /\ ~J[pager.header].magic /\ J[pager.header].n = 0
      /\ ~MagicAt(J, LastOf(pager) + 1)
  BY <1>1, SyncingFacts
<1>3. /\ JournalFile(J, ver) /\ JournalFile(jrnl.safe, ver) /\ pager.nonce <= ver /\ PagerType(pager) /\ DataFile(db.vis)
      /\ DOMAIN pc = {"at", "task", "page"} /\ DataFile(db.safe)
  BY DEF WholeInv, Basics
<1>4. Numbered(J) /\ Len(J) \in Nat
  BY <1>3 DEF JournalFile, Numbered
<1>5. /\ H.kind = "hdr" /\ "magic" \in DOMAIN H /\ H.magic = TRUE /\ H.n = pager.nRec /\ H.nonce = pager.nonce
      /\ H.orig = pager.dbOrigSize
  BY DEF Header
<1>6. CASE jrnl' = Seen(jrnl, K) /\ Goto("syncCount") /\ pager' = pager /\ faults' = faults
  <2>1. jrnl'.vis = K /\ jrnl'.safe = jrnl.safe
    BY <1>6 DEF Seen
  <2>2. i \in Nat /\ i > 0 /\ i <= LastOf(pager) /\ i <= Len(J) + 1 /\ i <= Len(J) /\ i = pager.header /\ i # LastOf(pager) + 1
    BY <1>2, <1>4
  <2> HIDE DEF i, H
  <2>3. /\ Numbered(K) /\ Len(K) = (IF i > Len(J) THEN i ELSE Len(J))
        /\ K[i] = H /\ \A k \in 1 .. Len(J) : k # i => K[k] = J[k]
    BY <1>4, <2>2, PutBlock
  <2> HIDE DEF K
  <2>4. Len(K) = Len(J)
    BY <1>4, <2>2, <2>3
  <2>5. IsBlock(H, ver)
    <3>1. pager.nRec \in Nat /\ pager.nonce \in Nat /\ pager.dbOrigSize \in 0 .. MaxPages
      BY <1>3 DEF PagerType
    <3>2. QED
      BY <1>5, <3>1 DEF IsBlock
  <2>6. JournalFile(K, ver)
    <3>1. \A k \in 1 .. Len(J) : IsBlock(J[k], ver)
      BY <1>3 DEF JournalFile
    <3>2. \A k \in 1 .. Len(K) : IsBlock(K[k], ver)
      BY <2>3, <2>4, <2>5, <3>1
    <3>3. QED
      BY <2>3, <3>2 DEF JournalFile
  <2>7. SameBlocks(pager, J, K)
    <3>1. NewHeader(pager, K, i)
      BY <1>5, <2>2, <2>3 DEF NewHeader
    <3>2. \A k \in 1 .. LastOf(pager) : k \in 1 .. Len(J)
      BY <1>2, <1>4
    <3>3. QED
      BY <1>2, <2>3, <2>4, <3>1, <3>2 DEF SameBlocks
  <2>8. \A m \in LastOf(pager) + 1 .. Len(K) : ~Good(K, m, pager.nonce)
    <3>1. \A m \in LastOf(pager) + 1 .. Len(J) : ~Good(J, m, pager.nonce)
      BY <1>2 DEF InProgressRight
    <3>2. \A m \in LastOf(pager) + 1 .. Len(K) : m \in 1 .. Len(J) /\ m # i
      BY <1>2, <2>2, <2>4
    <3>3. QED
      BY <2>3, <2>4, <3>1, <3>2 DEF Good
  <2>9. ~MagicAt(K, LastOf(pager) + 1)
    <3>1. LastOf(pager) + 1 <= Len(J) => LastOf(pager) + 1 \in 1 .. Len(J)
      BY <1>2, <1>4
    <3>2. QED
      BY <1>2, <2>2, <2>3, <2>4, <3>1 DEF MagicAt
  <2>10. /\ DOMAIN pc' = {"at", "task", "page"} /\ pc'.at = "syncCount" /\ pc'.task = pc.task /\ pc'.page = pc.page
    BY <1>3, <1>6 DEF Goto
  <2>11. K[pager.header].kind = "hdr" /\ K[pager.header].magic /\ K[pager.header].n = pager.nRec
    BY <1>5, <2>2, <2>3
  <2>12. SyncedRight(pager, jrnl.vis, jrnl'.safe) /\ SameBlocks(pager, jrnl.vis, jrnl'.vis)
    BY <1>2, <2>1, <2>7
  <2> HIDE DEF J
  <2>13. QED
    BY <1>1, <1>3, <1>6, <2>1, <2>6, <2>8, <2>9, <2>10, <2>11, <2>12, SyncingRight
<1>7. CASE MayFail /\ Failed(pager) /\ jrnl' = jrnl
  <2>1. CanRollBack(pager, jrnl'.vis, db'.vis, jrnl.safe)
    BY <1>1, <1>2, <1>7 DEF CanRollBack
  <2>2. DataFile(db'.vis) /\ JournalFile(jrnl'.vis, ver) /\ db'.safe = db.safe /\ jrnl'.safe = jrnl.safe
    BY <1>1, <1>3, <1>7
  <2>3. QED
    BY <1>1, <1>3, <1>7, <2>1, <2>2, FailedRight
<1>8. QED
  BY <1>1, <1>6, <1>7

\* A segment whose record count is synced is one of the whole segments of the journal.
LEMMA SegmentCompleted ==
    ASSUME NEW g, PagerType(g), NEW J, NEW v, JournalFile(J, v), Layout(g, J), g.header # 0,
           J[g.header].magic, J[g.header].n = g.nRec
    PROVE  Segments(J, LastOf(g), g.dbOrigSize)
<1> DEFINE h == g.journalHdr
           last == LastOf(g)
           orig == g.dbOrigSize
<1>1. /\ h \in Nat /\ g.nRec \in Nat /\ g.header = h + 1 /\ last = h + 1 + g.nRec /\ last \in Nat /\ last <= Len(J)
      /\ InProgressRight(g, J) /\ Segments(J, h, orig)
  BY DEF PagerType, Layout, LastOf
<1>2. /\ J[h + 1].kind = "hdr" /\ J[h + 1].magic /\ J[h + 1].orig = orig /\ J[h + 1].nonce = g.nonce /\ J[h + 1].n = g.nRec
      /\ \A m \in h + 1 + 1 .. last : J[m].kind = "rec" /\ J[m].nonce = g.nonce
  BY <1>1 DEF InProgressRight
<1> HIDE DEF h, last, orig
<1>3. ASSUME NEW i \in 1 .. last PROVE J[i].kind = "rec" \/ IsSegment(J, i, last, orig)
  <2>1. CASE i <= h /\ J[i].kind # "rec"
    <3>1. IsSegment(J, i, h, orig)
      BY <1>1, <1>3, <2>1 DEF Segments
    <3>2. J[i].n \in Nat
      <4>1. Len(J) \in Nat
        BY DEF JournalFile, Numbered
      <4>2. i \in 1 .. Len(J)
        BY <1>1, <4>1
      <4>3. IsBlock(J[i], v)
        BY <4>2 DEF JournalFile
      <4>4. QED
        BY <3>1, <4>3 DEF IsSegment, IsBlock
    <3>3. i + J[i].n <= h
      BY <3>1 DEF IsSegment
    <3>4. i + J[i].n <= last /\ (i + J[i].n = h => i + J[i].n + 1 = h + 1)
      BY <1>1, <3>2, <3>3
    <3>5. J[i + J[i].n + 1].kind = "hdr"
      BY <1>2, <3>1, <3>4 DEF IsSegment
    <3>6. QED
      BY <3>1, <3>4, <3>5 DEF IsSegment
  <2>2. CASE i = h + 1
    <3>1. i + J[i].n = last
      BY <1>1, <1>2, <2>2
    <3>2. QED
      BY <1>1, <1>2, <2>2, <3>1 DEF IsSegment
  <2>3. CASE i > h + 1
    <3>1. i \in h + 1 + 1 .. last
      BY <1>1, <2>3
    <3>2. QED
      BY <1>2, <3>1
  <2>4. QED
    BY <1>1, <2>1, <2>2, <2>3
<1>4. QED
  BY <1>3 DEF Segments, last, orig

\* The empty file is a journal.
LEMMA EmptyJournal == \A v : JournalFile(<<>>, v)
<1>1. Len(<<>>) = 0 /\ <<>> = [k \in 1 .. 0 |-> <<>>[k]]
  OBVIOUS
<1>2. Numbered(<<>>)
  BY <1>1 DEF Numbered
<1>3. QED
  BY <1>1, <1>2 DEF JournalFile

\* After the sync no page waits for it.
LEMMA NoSyncFacts ==
    ASSUME NEW c, CacheType(c)
    PROVE  LET k == NoSyncFlags(c)
           IN  /\ CacheType(k) /\ DOMAIN k = DOMAIN c
               /\ \A p \in DOMAIN c : k[p].data = c[p].data /\ k[p].dirty = c[p].dirty /\ k[p].sync = FALSE
<1> DEFINE k == NoSyncFlags(c)
<1>1. DOMAIN k = DOMAIN c /\ \A p \in DOMAIN c : k[p] = [c[p] EXCEPT !.sync = FALSE]
  BY DEF NoSyncFlags
<1>2. \A p \in DOMAIN c : c[p] \in [data : Page, dirty : BOOLEAN, sync : BOOLEAN]
  BY DEF CacheType
<1> HIDE DEF k
<1>3. ASSUME NEW p \in DOMAIN c
      PROVE  /\ k[p] \in [data : Page, dirty : BOOLEAN, sync : BOOLEAN]
             /\ k[p].data = c[p].data /\ k[p].dirty = c[p].dirty /\ k[p].sync = FALSE
  <2> DEFINE x == c[p]
             y == [x EXCEPT !.sync = FALSE]
  <2>1. x \in [data : Page, dirty : BOOLEAN, sync : BOOLEAN]
    BY <1>2
  <2>2. k[p] = y
    BY <1>1
  <2> HIDE DEF x
  <2>3. y \in [data : Page, dirty : BOOLEAN, sync : BOOLEAN]
    BY <2>1
  <2>4. y.data = x.data /\ y.dirty = x.dirty
    BY <2>1
  <2>5. y.sync = FALSE
    BY <2>1
  <2>6. QED
    BY <2>2, <2>3, <2>4, <2>5 DEF x
<1>4. CacheType(k)
  BY <1>1, <1>3 DEF CacheType
<1>5. QED
  BY <1>1, <1>3, <1>4 DEF k

\* What a pager keeps of a pager g when the record count of g's segment is synced.
AfterSync(g, w) ==
    /\ DOMAIN w = Fields
    /\ w.jfd = g.jfd /\ w.dbSize = g.dbSize /\ w.dbOrigSize = g.dbOrigSize /\ w.dbFileSize = g.dbFileSize
    /\ w.pInJournal = g.pInJournal /\ w.sub = g.sub
    /\ w.eState = "DBMOD" /\ w.journalHdr = LastOf(g) /\ w.cache = NoSyncFlags(g.cache)

\* The synced header makes the segment in progress a whole one.
LEMMA AfterSyncFacts ==
    ASSUME NEW g, PagerType(g), NEW J, NEW f, NEW w, AfterSync(g, w), NEW K, Records(w, K) = Records(g, J),
           \A b \in Records(g, J) : K[b] = J[b], LastOf(g) \in Nat,
           RecordsRight(g, J), CacheRight(g, J, f), OwnRecords => ContentRight(g, J, f)
    PROVE  RecordsRight(w, K) /\ CacheRight(w, K, f) /\ (OwnRecords => ContentRight(w, K, f))
<1>1. /\ DOMAIN w.cache = DOMAIN g.cache
      /\ \A p \in DOMAIN g.cache : w.cache[p].data = g.cache[p].data /\ w.cache[p].dirty = g.cache[p].dirty
  <2>1. CacheType(g.cache)
    BY DEF PagerType
  <2> DEFINE k == NoSyncFlags(g.cache)
  <2>2. w.cache = k
    BY DEF AfterSync
  <2>3. /\ DOMAIN k = DOMAIN g.cache
        /\ \A p \in DOMAIN g.cache : k[p].data = g.cache[p].data /\ k[p].dirty = g.cache[p].dirty
    BY <2>1, NoSyncFacts
  <2> HIDE DEF k
  <2>4. QED
    BY <2>2, <2>3
<1>2. RecordsRight(w, K)
  BY DEF RecordsRight, AfterSync
<1>3. \A b \in Records(w, K) : b \in Nat /\ b <= LastOf(g)
  BY DEF Records, RecordsIn
<1>4. \A b \in Records(w, K) : ~(b > w.journalHdr)
  BY <1>3 DEF AfterSync
<1>5. CacheRight(w, K, f)
  BY <1>1, <1>4 DEF CacheRight, AfterSync
<1>6. ASSUME OwnRecords PROVE ContentRight(w, K, f)
  BY <1>1, <1>4, <1>6 DEF ContentRight, AfterSync
<1>7. QED
  BY <1>2, <1>5, <1>6

\* The savepoints of the segment that ends at that block.
Moved(saves, last) ==
    [i \in DOMAIN saves |-> IF saves[i].iHdrOffset = 0 THEN [saves[i] EXCEPT !.iHdrOffset = last] ELSE saves[i]]

\* The savepoints of a spill remember where the segment ended.
LEMMA MovedFacts ==
    ASSUME NEW saves \in Seq(Save), NEW last \in Nat
    PROVE  LET m == Moved(saves, last)
           IN  /\ m \in Seq(Save) /\ Len(m) = Len(saves)
               /\ \A i \in 1 .. Len(saves) :
                     /\ m[i].nOrig = saves[i].nOrig /\ m[i].iSubRec = saves[i].iSubRec /\ m[i].iOffset = saves[i].iOffset
                     /\ m[i].inSavepoint = saves[i].inSavepoint
                     /\ m[i].iHdrOffset = IF saves[i].iHdrOffset = 0 THEN last ELSE saves[i].iHdrOffset
<1> DEFINE m == Moved(saves, last)
<1>1. DOMAIN saves = 1 .. Len(saves) /\ Len(saves) \in Nat
  OBVIOUS
<1>2. /\ DOMAIN m = 1 .. Len(saves) /\ m = [i \in 1 .. Len(saves) |-> m[i]]
      /\ \A i \in 1 .. Len(saves) :
            m[i] = IF saves[i].iHdrOffset = 0 THEN [saves[i] EXCEPT !.iHdrOffset = last] ELSE saves[i]
  BY <1>1 DEF Moved
<1> HIDE DEF m
<1>3. ASSUME NEW i \in 1 .. Len(saves)
      PROVE  /\ m[i] \in Save
             /\ m[i].nOrig = saves[i].nOrig /\ m[i].iSubRec = saves[i].iSubRec /\ m[i].iOffset = saves[i].iOffset
             /\ m[i].inSavepoint = saves[i].inSavepoint
             /\ m[i].iHdrOffset = IF saves[i].iHdrOffset = 0 THEN last ELSE saves[i].iHdrOffset
  <2> DEFINE x == saves[i]
             y == [x EXCEPT !.iHdrOffset = last]
  <2>1. x \in Save /\ (m[i] = IF x.iHdrOffset = 0 THEN y ELSE x)
    BY <1>2
  <2> HIDE DEF x
  <2>2. /\ y \in Save /\ y.nOrig = x.nOrig /\ y.iSubRec = x.iSubRec /\ y.iOffset = x.iOffset
        /\ y.inSavepoint = x.inSavepoint /\ y.iHdrOffset = last
    BY <2>1 DEF Save
  <2> HIDE DEF y
  <2>3. QED
    BY <2>1, <2>2 DEF x
<1>4. m \in Seq(Save) /\ Len(m) = Len(saves)
  BY <1>1, <1>2, <1>3
<1>5. QED
  BY <1>3, <1>4 DEF m

\* A spill begins the next segment of the journal.
NextSegment(g, J, w, K, v, last) ==
    /\ AfterSync(g, w) /\ w.nRec = 0 /\ w.nonce = v /\ w.journalOff = last + 1 /\ w.header = last + 1
    /\ w.aSavepoint = Moved(g.aSavepoint, last)
    /\ K = Put(J, last + 1, Header(FALSE, 0, v, g.dbOrigSize))

\* The next segment starts empty, and the pager is ready.
LEMMA NextSegmentReady ==
    ASSUME Sizes, NEW g, PagerType(g), NEW J, NEW v \in Nat, JournalFile(J, v), NEW f, DataFile(f),
           g.eState \in {"CACHEMOD", "DBMOD"}, Layout(g, J), RecordsRight(g, J), CacheRight(g, J, f),
           OwnRecords => ContentRight(g, J, f), SavesRight(g, J, f), g.header # 0,
           NEW last, last = LastOf(g), Segments(J, last, g.dbOrigSize), ~MagicAt(J, last + 1),
           NEW w, NEW K, NextSegment(g, J, w, K, v, last)
    PROVE  Ready(w, K, f, J, v + 1) /\ JournalFile(K, v) /\ PagesOf(w, f) = PagesOf(g, f)
<1> DEFINE H == Header(FALSE, 0, v, g.dbOrigSize)
<1>1. /\ g.journalHdr \in Nat /\ g.nRec \in Nat /\ g.header = g.journalHdr + 1
      /\ last = g.journalHdr + 1 + g.nRec /\ last \in Nat /\ last > 0 /\ last <= Len(J)
      /\ InProgressRight(g, J) /\ Len(J) \in Nat /\ Numbered(J) /\ g.dbOrigSize \in 0 .. MaxPages
      /\ \A i \in 1 .. Len(J) : IsBlock(J[i], v)
  BY DEF PagerType, Layout, LastOf, JournalFile, Numbered
<1>2. /\ DOMAIN w = Fields
      /\ w.jfd = g.jfd /\ w.dbSize = g.dbSize /\ w.dbOrigSize = g.dbOrigSize /\ w.dbFileSize = g.dbFileSize
      /\ w.pInJournal = g.pInJournal /\ w.sub = g.sub
      /\ w.eState = "DBMOD" /\ w.journalHdr = last /\ w.cache = NoSyncFlags(g.cache)
      /\ w.nRec = 0 /\ w.nonce = v /\ w.journalOff = last + 1 /\ w.header = last + 1
      /\ w.aSavepoint = Moved(g.aSavepoint, last)
      /\ K = Put(J, last + 1, H)
  BY DEF NextSegment, AfterSync
<1>3. /\ H.kind = "hdr" /\ "magic" \in DOMAIN H /\ H.magic = FALSE /\ H.n = 0 /\ H.nonce = v /\ H.orig = g.dbOrigSize
  BY DEF Header
<1> HIDE DEF H
<1>4. /\ Numbered(K) /\ Len(K) = (IF last + 1 > Len(J) THEN last + 1 ELSE Len(J))
      /\ K[last + 1] = H /\ \A k \in 1 .. Len(J) : k # last + 1 => K[k] = J[k]
  <2> DEFINE i == last + 1
  <2>1. i \in Nat /\ i > 0 /\ i <= Len(J) + 1 /\ K = Put(J, i, H)
    BY <1>1, <1>2
  <2> HIDE DEF i
  <2>2. /\ Numbered(K) /\ Len(K) = (IF i > Len(J) THEN i ELSE Len(J))
        /\ K[i] = H /\ \A k \in 1 .. Len(J) : k # i => K[k] = J[k]
    BY <1>1, <2>1, PutBlock
  <2>3. QED
    BY <2>2 DEF i
<1>5. /\ \A i \in 1 .. last : K[i] = J[i]
      /\ \A k \in 1 .. Len(K) : k = last + 1 \/ (k \in 1 .. Len(J) /\ K[k] = J[k])
      /\ last + 1 <= Len(K)
  <2>1. \A i \in 1 .. last : i \in 1 .. Len(J) /\ i # last + 1
    BY <1>1
  <2>2. \A k \in 1 .. Len(K) : k = last + 1 \/ k \in 1 .. Len(J)
    BY <1>1, <1>4
  <2>3. last + 1 <= Len(K)
    BY <1>1, <1>4
  <2>4. QED
    BY <1>4, <2>1, <2>2, <2>3
<1>6. JournalFile(K, v)
  <2>1. IsBlock(H, v)
    <3>1. H.magic \in BOOLEAN
      BY <1>3
    <3>2. H.n \in Nat /\ H.nonce \in Nat
      BY <1>3
    <3>3. H.orig \in 0 .. MaxPages
      BY <1>1, <1>3
    <3>4. QED
      BY <1>3, <3>1, <3>2, <3>3 DEF IsBlock
  <2>2. \A k \in 1 .. Len(K) : IsBlock(K[k], v)
    BY <1>1, <1>4, <1>5, <2>1
  <2>3. QED
    BY <1>4, <2>2 DEF JournalFile
<1>7. JournalFile(K, v + 1) /\ v + 1 \in Nat
  BY <1>6, OlderBlocks
<1>8. /\ CacheType(w.cache) /\ DOMAIN w.cache = DOMAIN g.cache
      /\ \A p \in DOMAIN g.cache : w.cache[p].data = g.cache[p].data
  <2>1. CacheType(g.cache)
    BY DEF PagerType
  <2>2. QED
    BY <1>2, <2>1, NoSyncFacts
<1>9. /\ g.aSavepoint \in Seq(Save) /\ w.aSavepoint \in Seq(Save) /\ Len(w.aSavepoint) = Len(g.aSavepoint)
      /\ \A i \in 1 .. Len(g.aSavepoint) :
            LET s == g.aSavepoint[i]
                m == w.aSavepoint[i]
            IN  /\ m.nOrig = s.nOrig /\ m.iSubRec = s.iSubRec /\ m.iOffset = s.iOffset /\ m.inSavepoint = s.inSavepoint
                /\ m.iHdrOffset = IF s.iHdrOffset = 0 THEN last ELSE s.iHdrOffset
  <2>1. g.aSavepoint \in Seq(Save)
    BY DEF PagerType
  <2>2. QED
    BY <1>1, <1>2, <2>1, MovedFacts
<1>10. PagerType(w)
  <2>1. w.header \in Nat /\ w.journalHdr \in Nat /\ w.journalOff \in Nat /\ w.nRec \in Nat /\ w.nonce \in Nat
    BY <1>1, <1>2
  <2>2. w.eState \in {"OPEN", "READER", "ERROR"} \cup Writer
    BY <1>2 DEF Writer
  <2>3. \A i \in 1 .. Len(w.aSavepoint) : w.aSavepoint[i].iSubRec <= Len(w.sub)
    BY <1>2, <1>9 DEF PagerType
  <2>4. QED
    BY <1>2, <1>8, <1>9, <2>1, <2>2, <2>3 DEF PagerType
<1>11. LastOf(w) = last + 1
  BY <1>1, <1>2 DEF LastOf
<1>12. Records(w, K) = Records(g, J) /\ \A b \in Records(g, J) : K[b] = J[b]
  <2>1. Records(w, K) = {k \in 1 .. last + 1 : K[k].kind = "rec"}
    BY <1>11 DEF Records, RecordsIn
  <2>2. Records(g, J) = {k \in 1 .. last : J[k].kind = "rec"}
    BY DEF Records, RecordsIn
  <2>3. \A k \in 1 .. last + 1 : k = last + 1 \/ k \in 1 .. last
    BY <1>1
  <2>4. \A k \in 1 .. last : k \in 1 .. last + 1
    BY <1>1
  <2>5. K[last + 1].kind # "rec"
    BY <1>3, <1>4
  <2>6. QED
    BY <1>5, <2>1, <2>2, <2>3, <2>4, <2>5
<1>13. Layout(w, K)
  <2>1. Segments(K, last, w.dbOrigSize)
    <3>1. ASSUME NEW i \in 1 .. last, IsSegment(J, i, last, g.dbOrigSize) PROVE IsSegment(K, i, last, g.dbOrigSize)
      <4>1. i \in 1 .. Len(J) /\ K[i] = J[i] /\ J[i].kind = "hdr"
        BY <1>1, <1>5, <3>1 DEF IsSegment
      <4>2. J[i].n \in Nat
        BY <1>1, <4>1 DEF IsBlock
      <4>3. i + J[i].n <= last
        BY <3>1 DEF IsSegment
      <4>4. \A m \in i + 1 .. i + J[i].n : m \in 1 .. last
        BY <1>1, <4>2, <4>3
      <4>5. i + J[i].n = last \/ i + J[i].n + 1 \in 1 .. last
        <5> DEFINE n == J[i].n
        <5>1. n \in Nat /\ i + n <= last /\ last \in Nat /\ i \in Nat /\ i > 0
          BY <1>1, <4>2, <4>3
        <5> HIDE DEF n
        <5>2. i + n = last \/ i + n + 1 \in 1 .. last
          BY <5>1
        <5>3. QED
          BY <5>2 DEF n
      <4>6. QED
        BY <1>5, <3>1, <4>1, <4>4, <4>5 DEF IsSegment
    <3>2. QED
      BY <1>2, <1>5, <3>1 DEF Segments
  <2>2. InProgressRight(w, K)
    <3>1. ASSUME NEW m \in last + 1 + 1 .. Len(K) PROVE ~Good(K, m, v)
      <4>1. m \in 1 .. Len(J) /\ K[m] = J[m]
        BY <1>1, <1>4, <1>5
      <4>2. K[m].kind = "rec" => K[m].nonce < v /\ K[m].nonce \in Nat
        BY <1>1, <4>1 DEF IsBlock
      <4>3. QED
        BY <4>2 DEF Good
    <3>2. \A m \in last + 1 + 1 .. last + 1 : FALSE
      BY <1>1
    <3>3. QED
      BY <1>2, <1>3, <1>4, <1>11, <3>1, <3>2 DEF InProgressRight
  <2>3. 1 \in 1 .. last
    BY <1>1
  <2>4. K[1].kind = "hdr" /\ K[1].orig = w.dbOrigSize
    BY <1>2, <1>5, <2>3 DEF Layout
  <2>5. /\ w.journalOff > 0 /\ 0 < LastOf(w) /\ LastOf(w) <= Len(K) /\ w.header # 0 /\ w.header = w.journalHdr + 1
        /\ w.journalHdr # 0
    BY <1>1, <1>2, <1>5, <1>11
  <2>6. w.jfd = TRUE /\ w.eState # "CACHEMOD"
    BY <1>2 DEF Layout
  <2>7. QED
    BY <1>2, <2>1, <2>2, <2>4, <2>5, <2>6 DEF Layout
<1>14. RecordsRight(w, K) /\ CacheRight(w, K, f) /\ (OwnRecords => ContentRight(w, K, f))
  <2>1. AfterSync(g, w) /\ LastOf(g) \in Nat
    BY <1>1 DEF NextSegment
  <2>2. QED
    BY <1>12, <2>1, AfterSyncFacts
<1>15. SyncedRight(w, K, J)
  BY <1>1, <1>2, <1>5 DEF SyncedRight
<1>16. PagesOf(w, f) = PagesOf(g, f)
  BY <1>2, <1>8 DEF PagesOf, Get
<1>17. SavesRight(w, K, f)
  <2>1. SubRight(w)
    BY <1>2, <1>8 DEF SavesRight, SubRight
  <2>2. Nested(w.aSavepoint)
    <3>1. Nested(g.aSavepoint)
      BY DEF SavesRight
    <3>2. QED
      BY <1>9, <3>1 DEF Nested
  <2>3. ASSUME NEW i \in 1 .. Len(w.aSavepoint) PROVE SaveRight(w, K, f, w.aSavepoint[i])
    <3> DEFINE s == g.aSavepoint[i]
               m == w.aSavepoint[i]
    <3>1. /\ m.nOrig = s.nOrig /\ m.iSubRec = s.iSubRec /\ m.iOffset = s.iOffset /\ m.inSavepoint = s.inSavepoint
          /\ m.iHdrOffset = IF s.iHdrOffset = 0 THEN last ELSE s.iHdrOffset
          /\ s \in Save /\ SaveRight(g, J, f, s)
      BY <1>9 DEF SavesRight
    <3> HIDE DEF s, m
    <3>2. s.iOffset \in Nat /\ s.iHdrOffset \in Nat /\ s.iOffset > 0 /\ s.iOffset <= last
      BY <3>1 DEF Save, SaveRight
    <3>3. MainOne(w, K, m) = MainOne(g, J, s) /\ SubOne(w, m) = SubOne(g, s) /\ \A b \in MainOne(g, J, s) : K[b] = J[b]
      BY <1>2, <1>12, <3>1 DEF MainOne, SubOne
    <3>4. FirstOne(w, K, f, m)
      BY <1>2, <1>16, <3>1, <3>3 DEF SaveRight, FirstOne
    <3>5. /\ m.iOffset <= m.iHdrOffset /\ m.iHdrOffset <= last
          /\ \A b \in m.iOffset + 1 .. m.iHdrOffset : K[b].kind = "rec"
          /\ K[m.iHdrOffset + 1].kind = "hdr"
      <4>1. CASE s.iHdrOffset = 0 /\ s.iOffset > g.journalHdr
        <5>1. m.iHdrOffset = last
          BY <3>1, <4>1
        <5>2. \A b \in m.iOffset + 1 .. last : b \in g.journalHdr + 1 + 1 .. last /\ b \in 1 .. last
          BY <1>1, <3>1, <3>2, <4>1
        <5>3. \A b \in g.journalHdr + 1 + 1 .. last : J[b].kind = "rec"
          BY <1>1 DEF InProgressRight
        <5>4. m.iOffset <= m.iHdrOffset /\ m.iHdrOffset <= last
          BY <1>1, <3>1, <3>2, <5>1
        <5>5. \A b \in m.iOffset + 1 .. m.iHdrOffset : K[b].kind = "rec"
          BY <1>5, <3>1, <5>1, <5>2, <5>3
        <5>6. K[m.iHdrOffset + 1].kind = "hdr"
          BY <1>3, <1>4, <5>1
        <5>7. QED
          BY <5>4, <5>5, <5>6
      <4>2. CASE /\ s.iOffset <= s.iHdrOffset /\ s.iHdrOffset <= g.journalHdr
                 /\ \A b \in s.iOffset + 1 .. s.iHdrOffset : J[b].kind = "rec"
                 /\ J[s.iHdrOffset + 1].kind = "hdr"
        <5>1. m.iHdrOffset = s.iHdrOffset
          BY <3>1, <3>2, <4>2
        <5>2. \A b \in s.iOffset + 1 .. s.iHdrOffset : b \in 1 .. last
          BY <1>1, <3>2, <4>2
        <5>3. s.iHdrOffset + 1 \in 1 .. last /\ s.iHdrOffset <= last
          BY <1>1, <3>2, <4>2
        <5>4. QED
          BY <1>5, <3>1, <4>2, <5>1, <5>2, <5>3
      <4>3. QED
        BY <3>1, <4>1, <4>2 DEF SaveRight
    <3>6. /\ w.dbOrigSize <= m.nOrig /\ m.nOrig <= w.dbSize /\ m.nOrig > 0
          /\ m.iOffset > 0 /\ m.iOffset <= LastOf(w)
      BY <1>1, <1>2, <1>11, <3>1, <3>2 DEF SaveRight
    <3>7. SaveRight(w, K, f, m)
      BY <1>2, <3>4, <3>5, <3>6 DEF SaveRight
    <3>8. QED
      BY <3>7 DEF m
  <2>4. g.dbOrigSize > 0 /\ 1 \notin g.pInJournal => PagesOf(g, f) <= g.dbOrigSize
    BY DEF SavesRight
  <2>5. QED
    BY <1>2, <1>16, <2>1, <2>2, <2>3, <2>4 DEF SavesRight
<1>18. w.journalOff = LastOf(w) /\ w.header # 0 /\ w.nonce < v + 1
  BY <1>1, <1>2, <1>11
<1>19. K[w.journalHdr + 1].magic = FALSE /\ K[w.journalHdr + 1].n = 0
  BY <1>2, <1>3, <1>4
<1>20. QED
  BY <1>2, <1>6, <1>7, <1>10, <1>13, <1>14, <1>15, <1>16, <1>17, <1>18, <1>19 DEF Ready

\* The sync of the record count keeps the invariant.
LEMMA SyncCountRight ==
    ASSUME WholeInv, SyncCount
    PROVE  WholeInv'
<1> DEFINE J == jrnl.vis
           f == db.vis
           last == pager.journalOff
           H == Header(FALSE, 0, ver, pager.dbOrigSize)
           K == Put(J, last + 1, H)
           u == [pager EXCEPT !.journalHdr = last, !.cache = NoSyncFlags(@), !.eState = "DBMOD"]
           saves == [i \in DOMAIN u.aSavepoint |->
                        IF u.aSavepoint[i].iHdrOffset = 0 THEN [u.aSavepoint[i] EXCEPT !.iHdrOffset = last]
                        ELSE u.aSavepoint[i]]
           w == [u EXCEPT !.nRec = 0, !.nonce = ver, !.journalOff = last + 1, !.header = last + 1, !.aSavepoint = saves]
           x == [u EXCEPT !.header = 0]
<1>1. pc.at = "syncCount"
  BY DEF SyncCount
<1>2. /\ pc.task \in {"spill", "commit"} /\ pager.eState \in {"CACHEMOD", "DBMOD"} /\ pager.header # 0
      /\ Layout(pager, J) /\ RecordsRight(pager, J) /\ SyncedRight(pager, J, jrnl.safe)
      /\ CacheRight(pager, J, f) /\ (OwnRecords => ContentRight(pager, J, f))
      /\ Stage /\ SavesRight(pager, J, f) /\ PagesOf(pager, f) <= pager.dbSize /\ pager.dbSize > 0
      /\ last = LastOf(pager)
      /\ pager.journalHdr \in Nat /\ pager.nRec \in Nat /\ pager.header = pager.journalHdr + 1
      /\ last = pager.journalHdr + 1 + pager.nRec /\ last \in Nat
      /\ last <= Len(J) /\ InProgressRight(pager, J)
      /\ J[pager.header].magic /\ J[pager.header].n = pager.nRec
      /\ ~MagicAt(J, last + 1)
  BY <1>1, SyncingFacts
<1>3. /\ JournalFile(J, ver) /\ JournalFile(jrnl.safe, ver) /\ JournalFile(gone.vis, ver) /\ JournalFile(gone.safe, ver)
      /\ pager.nonce <= ver /\ PagerType(pager) /\ DataFile(db.vis)
      /\ DOMAIN pc = {"at", "task", "page"} /\ DataFile(db.safe) /\ setting \in Settings
  BY DEF WholeInv, Basics
<1>4. Sizes /\ ver \in Nat /\ ver <= MaxVersion /\ faults \in Nat /\ DOMAIN pager = Fields /\ Len(J) \in Nat
  BY Bounds
<1>5. /\ db' = db /\ ver' = ver /\ setting' = setting
      /\ \/ /\ IF pc.task = "spill" THEN pager' = w /\ jrnl' = [vis |-> K, safe |-> J]
                                    ELSE pager' = x /\ jrnl' = Synced(jrnl)
            /\ gone' = NoFile /\ Goto("writePages") /\ faults' = faults
         \/ MayFail /\ Failed(pager) /\ jrnl' = jrnl /\ gone' = gone
  BY <1>2 DEF SyncCount
<1>6. Segments(J, last, pager.dbOrigSize)
  <2>1. Segments(J, LastOf(pager), pager.dbOrigSize)
    BY <1>2, <1>3, SegmentCompleted
  <2>2. QED
    BY <1>2, <2>1
<1>7. /\ DOMAIN u = Fields /\ AfterSync(pager, u) /\ u.nRec = pager.nRec /\ u.journalOff = pager.journalOff
      /\ u.nonce = pager.nonce /\ u.header = pager.header /\ u.aSavepoint = pager.aSavepoint
      /\ saves = Moved(pager.aSavepoint, last)
  BY <1>2, <1>4 DEF Fields, AfterSync, Moved
<1>8. CacheType(u.cache) /\ DOMAIN u.cache = DOMAIN pager.cache
      /\ \A p \in DOMAIN pager.cache : u.cache[p].data = pager.cache[p].data /\ u.cache[p].sync = FALSE
  <2>1. CacheType(pager.cache) /\ u.cache = NoSyncFlags(pager.cache)
    BY <1>3, <1>7 DEF PagerType, AfterSync
  <2> HIDE DEF u
  <2>2. QED
    BY <2>1, NoSyncFacts
<1> HIDE DEF u, saves, H
<1>9. JournalFile(gone'.vis, ver) /\ JournalFile(gone'.safe, ver)
  BY <1>3, <1>5, EmptyJournal DEF NoFile
<1>10. pc.task = "spill" => pc.page \in DOMAIN pager.cache
  BY <1>2 DEF Stage
<1>11. CASE pc.task = "commit" /\ pager' = x /\ jrnl' = Synced(jrnl) /\ gone' = NoFile /\ Goto("writePages") /\ faults' = faults
  <2>1. /\ DOMAIN x = Fields /\ AfterSync(pager, x) /\ x.header = 0 /\ x.nRec = pager.nRec /\ x.journalOff = last
        /\ x.nonce = pager.nonce /\ x.aSavepoint = pager.aSavepoint /\ x.cache = u.cache /\ x.journalHdr = last
        /\ x.eState = "DBMOD" /\ x.dbOrigSize = pager.dbOrigSize /\ x.jfd = pager.jfd /\ x.dbSize = pager.dbSize
    BY <1>2, <1>7 DEF Fields, AfterSync
  <2> HIDE DEF x
  <2>2. jrnl'.vis = J /\ jrnl'.safe = J
    BY <1>11 DEF Synced
  <2>3. LastOf(x) = last
    BY <2>1 DEF LastOf
  <2>4. Records(x, J) = Records(pager, J)
    BY <1>2, <2>3 DEF Records
  <2>5. PagerType(x)
    <3>1. x.header \in Nat /\ x.journalHdr \in Nat /\ x.journalOff \in Nat /\ x.nRec \in Nat
      BY <1>2, <2>1
    <3>2. x.eState \in {"OPEN", "READER", "ERROR"} \cup Writer
      BY <2>1 DEF Writer
    <3>3. QED
      BY <1>3, <1>8, <2>1, <3>1, <3>2 DEF PagerType, AfterSync
  <2>6. Layout(x, J)
    <3> HIDE DEF last
    <3>1. 0 < last /\ last # 0
      BY <1>2
    <3>2. last > 0
      BY <1>2
    <3>3. QED
      BY <1>2, <1>6, <2>1, <2>3, <3>1, <3>2 DEF Layout
  <2>7. RecordsRight(x, J) /\ CacheRight(x, J, f) /\ (OwnRecords => ContentRight(x, J, f))
    BY <1>2, <1>3, <2>1, <2>4, AfterSyncFacts
  <2>8. SyncedRight(x, J, J)
    BY <1>2, <2>1 DEF SyncedRight
  <2>9. /\ DOMAIN pc' = {"at", "task", "page"} /\ pc'.at = "writePages" /\ pc'.task = "commit"
    BY <1>3, <1>11 DEF Goto
  <2>10. Basics'
    BY <1>3, <1>4, <1>5, <1>9, <1>11, <2>1, <2>2, <2>5, <2>9, BasicsRight
  <2>11. Flow' /\ OpenRight' /\ ReaderRight' /\ LockedRight'
    BY <1>11, <2>1, <2>9 DEF Flow, OpenRight, ReaderRight, LockedRight
  <2>12. OwnRecords' => OwnRecords
    BY <1>4, <1>5, <1>11, CarriedOwn
  <2>13. Stage'
    BY <1>8, <1>11, <2>1, <2>2, <2>3, <2>9 DEF Stage
  <2>14. WriterRight'
    BY <1>5, <1>11, <2>1, <2>2, <2>6, <2>7, <2>8, <2>9, <2>12, <2>13 DEF WriterRight
  <2>15. QED
    BY <2>10, <2>11, <2>14 DEF WholeInv
<1>12. CASE pc.task = "spill" /\ pager' = w /\ jrnl' = [vis |-> K, safe |-> J] /\ gone' = NoFile /\ Goto("writePages") /\ faults' = faults
  <2>1. /\ DOMAIN w = Fields /\ AfterSync(pager, w) /\ w.header = last + 1 /\ w.nRec = 0 /\ w.journalOff = last + 1
        /\ w.nonce = ver /\ w.aSavepoint = saves /\ w.cache = u.cache /\ w.journalHdr = last
        /\ w.eState = "DBMOD" /\ w.dbOrigSize = pager.dbOrigSize /\ w.jfd = pager.jfd /\ w.dbSize = pager.dbSize
        /\ w.sub = pager.sub /\ w.pInJournal = pager.pInJournal
    BY <1>2, <1>7 DEF Fields, AfterSync
  <2>2. jrnl'.vis = K /\ jrnl'.safe = J
    BY <1>12
  <2> HIDE DEF w, u
  <2>3. NextSegment(pager, J, w, K, ver, last)
    BY <1>7, <2>1 DEF NextSegment, H
  <2> HIDE DEF K
  <2>4. Ready(w, K, f, J, ver + 1) /\ JournalFile(K, ver) /\ PagesOf(w, f) = PagesOf(pager, f)
    <3> DEFINE g == pager
    <3>1. /\ PagerType(g) /\ JournalFile(J, ver) /\ DataFile(f)
          /\ g.eState \in {"CACHEMOD", "DBMOD"} /\ Layout(g, J) /\ RecordsRight(g, J) /\ CacheRight(g, J, f)
          /\ OwnRecords => ContentRight(g, J, f)
          /\ SavesRight(g, J, f) /\ g.header # 0
          /\ last = LastOf(g) /\ Segments(J, last, g.dbOrigSize) /\ ~MagicAt(J, last + 1)
          /\ NextSegment(g, J, w, K, ver, last)
      BY <1>2, <1>3, <1>6, <2>3
    <3> HIDE DEF g, J, f, last
    <3>2. Ready(w, K, f, J, ver + 1) /\ JournalFile(K, ver) /\ PagesOf(w, f) = PagesOf(g, f)
      BY <1>4, <3>1, NextSegmentReady
    <3>3. QED
      BY <3>2 DEF g
  <2>5. /\ DOMAIN pc' = {"at", "task", "page"} /\ pc'.at = "writePages" /\ pc'.task = "spill" /\ pc'.page = pc.page
    BY <1>3, <1>12 DEF Goto
  <2>6. pc'.page \in DOMAIN w.cache /\ w.cache[pc'.page].sync = FALSE
    BY <1>8, <1>10, <1>12, <2>1, <2>5
  <2>7. /\ Ready(pager', jrnl'.vis, db'.vis, jrnl'.safe, ver + 1)
        /\ JournalFile(jrnl'.vis, ver') /\ pager'.nonce <= ver' /\ JournalFile(jrnl'.safe, ver') /\ DataFile(db'.safe)
        /\ PagesOf(pager', db'.vis) <= pager'.dbSize /\ pager'.dbSize > 0
    BY <1>2, <1>3, <1>4, <1>5, <1>12, <2>1, <2>2, <2>4
  <2>8. OwnRecords' => OwnRecords
    BY <1>4, <1>5, <1>12, CarriedOwn
  <2>9. /\ faults' \in Nat /\ ver' \in Nat /\ ver' <= MaxVersion
        /\ JournalFile(gone'.vis, ver') /\ JournalFile(gone'.safe, ver') /\ setting' = setting /\ setting \in Settings
    BY <1>3, <1>4, <1>5, <1>9, <1>12
  <2>10. /\ pc'.at = "writePages" /\ pc'.task = "spill" /\ pager'.eState = "DBMOD"
         /\ pc'.page \in DOMAIN pager'.cache /\ ~pager'.cache[pc'.page].sync
    BY <1>12, <2>1, <2>5, <2>6
  <2>11. QED
    BY <1>4, <2>5, <2>7, <2>8, <2>9, <2>10, ReadyRight
<1>13. CASE MayFail /\ Failed(pager) /\ jrnl' = jrnl /\ gone' = gone
  <2>1. CanRollBack(pager, jrnl'.vis, db'.vis, jrnl.safe)
    BY <1>2, <1>5, <1>13 DEF CanRollBack
  <2>2. DataFile(db'.vis) /\ JournalFile(jrnl'.vis, ver) /\ db'.safe = db.safe /\ jrnl'.safe = jrnl.safe
    BY <1>3, <1>5, <1>13
  <2>3. QED
    BY <1>3, <1>5, <1>13, <2>1, <2>2, FailedRight
<1>14. QED
  BY <1>2, <1>5, <1>11, <1>12, <1>13

=============================================================================
