--------------------------- MODULE PagerCacheProofs ---------------------------
(***************************************************************************)
(* Proofs about Pager, for any number of pages and any settings of the     *)
(* connection: its cache, the write-ahead rule and the atomic commit.      *)
(*                                                                         *)
(* The first part: the remaining steps keep WholeInv, the commit of the    *)
(* file, the roll backs, the recovery from a hot journal and the end of a  *)
(* transaction.  CacheIsSound and WritesAhead follow: a clean page of the  *)
(* cache is the page of the file, and the file differs from the committed  *)
(* image only behind a synced journal that gives it back.                  *)
(*                                                                         *)
(* The second part, CommitsAreAtomic: with BaseRight, which says that the  *)
(* journal gives back the image that was committed, that image changes     *)
(* only when a commit ends.                                                *)
(***************************************************************************)
EXTENDS PagerProofs

(***************************************************************************)
(* Changes that are read from the journal.                                 *)
(***************************************************************************)
\* Changes to pages of a file of n pages.
Changed(c, n) == ChangeList(c) /\ \A k \in DOMAIN c : c[k].pgno \in 1 .. n /\ c[k].data \in Page

RecordBlocks(J, blocks) == blocks \subseteq 1 .. Len(J) /\ \A b \in blocks : J[b].kind = "rec"
ReadFrom(c, J, blocks, n) ==
    /\ \A b : b \in DOMAIN c <=> b \in blocks /\ J[b].pgno <= n
    /\ \A b \in DOMAIN c : c[b].pgno = J[b].pgno /\ c[b].data = J[b].data /\ c[b].at = b

\* The changes that the records of a journal make.
LEMMA ChangesFacts ==
    ASSUME NEW J, NEW v, JournalFile(J, v), NEW blocks, RecordBlocks(J, blocks), NEW n \in Nat
    PROVE  Changed(Changes(J, blocks, n), n) /\ ReadFrom(Changes(J, blocks, n), J, blocks, n)
<1> DEFINE c == Changes(J, blocks, n)
<1>1. /\ DOMAIN c = {b \in blocks : J[b].pgno <= n}
      /\ \A b \in DOMAIN c : c[b] = [pgno |-> J[b].pgno, data |-> J[b].data, at |-> b]
  BY DEF Changes
<1>0. blocks \subseteq 1 .. Len(J) /\ \A b \in blocks : J[b].kind = "rec"
  BY DEF RecordBlocks
<1> HIDE DEF c
<1>2. ASSUME NEW b \in DOMAIN c PROVE c[b].pgno = J[b].pgno /\ c[b].data = J[b].data /\ c[b].at = b
  <2> DEFINE e == [pgno |-> J[b].pgno, data |-> J[b].data, at |-> b]
  <2>1. e.pgno = J[b].pgno /\ e.data = J[b].data /\ e.at = b
    OBVIOUS
  <2>2. c[b] = e
    BY <1>1
  <2>3. QED
    BY <2>1, <2>2
<1>3. Len(J) \in Nat /\ DOMAIN c \subseteq 0 .. Len(J)
  <2>1. Len(J) \in Nat
    BY DEF JournalFile, Numbered
  <2>2. \A b \in 1 .. Len(J) : b \in 0 .. Len(J)
    BY <2>1
  <2>3. QED
    BY <1>0, <1>1, <2>1, <2>2
<1>4. ChangeList(c)
  BY <1>3 DEF ChangeList
<1>5. ASSUME NEW b \in DOMAIN c PROVE c[b].pgno \in 1 .. n /\ c[b].data \in Page
  <2>1. b \in 1 .. Len(J) /\ J[b].kind = "rec" /\ J[b].pgno <= n
    BY <1>0, <1>1
  <2>2. J[b].pgno \in 1 .. MaxPages /\ J[b].data \in Page
    BY <2>1 DEF JournalFile, IsBlock
  <2>3. QED
    BY <1>2, <2>1, <2>2
<1>6. QED
  BY <1>1, <1>2, <1>4, <1>5 DEF c, Changed, ReadFrom

\* Some of the changes.
LEMMA SomeChanges ==
    ASSUME NEW c, NEW n \in Nat, Changed(c, n), NEW e, DOMAIN e \subseteq DOMAIN c, \A k \in DOMAIN e : e[k] = c[k]
    PROVE  Changed(e, n) /\ (OncePerPage(c) => OncePerPage(e))
<1>1. ChangeList(e)
  BY DEF Changed, ChangeList
<1>2. QED
  BY <1>1 DEF Changed, OncePerPage

\* The changes before one of them.
LEMMA BeforeFacts ==
    ASSUME NEW c, NEW n
    PROVE  DOMAIN Before(c, n) \subseteq DOMAIN c /\ \A k \in DOMAIN Before(c, n) : Before(c, n)[k] = c[k]
  BY DEF Before

\* What some of the changes store in a file that has their pages.
LEMMA StoredChanges ==
    ASSUME Sizes, NEW f, DataFile(f), NEW n \in Nat, n <= Len(f), NEW c, Changed(c, n), NEW S, S \subseteq DOMAIN c
    PROVE  LET s == Stored(f, Latest(c, S))
           IN  /\ DataFile(s) /\ Len(s) = Len(f)
               /\ \A p \in 1 .. Len(f) : (\A k \in S : c[k].pgno # p) => s[p] = f[p]
               /\ \A p \in 1 .. Len(f) : s[p] = f[p] \/ \E k \in S : c[k].pgno = p /\ s[p] = c[k].data
               /\ OncePerPage(c) => \A k \in S : s[c[k].pgno] = c[k].data
<1> DEFINE l == Latest(c, S)
           s == Stored(f, l)
<1>1. /\ \A p \in DOMAIN l : \E k \in S : c[k].pgno = p
      /\ \A k \in S : c[k].pgno \in DOMAIN l
      /\ \A p \in DOMAIN l : \E k \in S : c[k].pgno = p /\ l[p] = c[k].data
      /\ OncePerPage(c) => \A k \in S : c[k].pgno \in DOMAIN l /\ l[c[k].pgno] = c[k].data
  <2>1. ChangeList(c)
    BY DEF Changed
  <2>2. QED
    BY <2>1, LatestFacts
<1>2. Numbered(f) /\ Len(f) \in Nat /\ Len(f) <= MaxPages /\ \A p \in 1 .. Len(f) : f[p] \in Page
  BY DEF DataFile, Numbered
<1>3. \A k \in S : c[k].pgno \in 1 .. n /\ c[k].pgno \in 1 .. Len(f) /\ c[k].data \in Page
  BY <1>2 DEF Changed
<1> HIDE DEF l
<1>4. DOMAIN l \subseteq 1 .. Len(f)
  BY <1>1, <1>3
<1>5. /\ Numbered(s) /\ Len(s) >= Len(f) /\ (Len(s) = Len(f) \/ Len(s) \in DOMAIN l)
      /\ \A p \in 1 .. Len(s) : s[p] = IF p \in DOMAIN l THEN l[p] ELSE IF p <= Len(f) THEN f[p] ELSE Zero
  BY <1>2, <1>4, StoredFacts
<1> HIDE DEF s
<1>6. Len(s) = Len(f)
  BY <1>2, <1>4, <1>5
<1>7. \A p \in 1 .. Len(f) : s[p] = IF p \in DOMAIN l THEN l[p] ELSE f[p]
  BY <1>2, <1>5, <1>6
<1>8. \A p \in 1 .. Len(f) : (\A k \in S : c[k].pgno # p) => s[p] = f[p]
  BY <1>1, <1>7
<1>9. \A p \in 1 .. Len(f) : s[p] = f[p] \/ \E k \in S : c[k].pgno = p /\ s[p] = c[k].data
  BY <1>1, <1>7
<1>10. ASSUME OncePerPage(c) PROVE \A k \in S : s[c[k].pgno] = c[k].data
  BY <1>1, <1>3, <1>7, <1>10
<1>11. DataFile(s)
  BY <1>2, <1>3, <1>5, <1>6, <1>9 DEF DataFile
<1>12. QED
  BY <1>6, <1>8, <1>9, <1>10, <1>11 DEF s, l

\* What the changes restore in a cache.
Loads(load, c, cache) == \A p \in load : p \notin DOMAIN cache /\ \E k \in DOMAIN c : c[k].pgno = p
RestoredFrom(cache, c, load, r) ==
    /\ CacheType(r) /\ DOMAIN r = DOMAIN cache \cup load
    /\ \A p \in DOMAIN cache : r[p].dirty = cache[p].dirty /\ r[p].sync = cache[p].sync
    /\ \A p \in load : r[p].dirty = TRUE /\ r[p].sync = FALSE
    /\ \A p \in DOMAIN cache : (\A k \in DOMAIN c : c[k].pgno # p) => r[p] = cache[p]
    /\ \A p \in DOMAIN r : \/ p \in DOMAIN cache /\ r[p].data = cache[p].data
                           \/ \E k \in DOMAIN c : c[k].pgno = p /\ r[p].data = c[k].data
    /\ OncePerPage(c) => \A k \in DOMAIN c : c[k].pgno \in DOMAIN r => r[c[k].pgno].data = c[k].data

\* The changed pages of the cache have their new content, the others keep theirs.
LEMMA RestoredChanges ==
    ASSUME NEW cache, CacheType(cache), NEW n \in Nat, NEW c, Changed(c, n), n <= MaxPages, MaxPages \in Nat,
           NEW load, Loads(load, c, cache)
    PROVE  RestoredFrom(cache, c, load, Restored(cache, Pages(c), load))
<1> DEFINE l == Pages(c)
           r == Restored(cache, l, load)
           S == DOMAIN c
<1>1. /\ \A p \in DOMAIN l : \E k \in S : c[k].pgno = p
      /\ \A k \in S : c[k].pgno \in DOMAIN l
      /\ \A p \in DOMAIN l : \E k \in S : c[k].pgno = p /\ l[p] = c[k].data
      /\ OncePerPage(c) => \A k \in S : c[k].pgno \in DOMAIN l /\ l[c[k].pgno] = c[k].data
  <2>1. l = Latest(c, S)
    BY DEF Pages
  <2>2. ChangeList(c) /\ S \subseteq DOMAIN c
    BY DEF Changed
  <2>3. QED
    BY <2>1, <2>2, LatestFacts
<1>2. \A k \in S : c[k].pgno \in 1 .. MaxPages /\ c[k].data \in Page
  BY DEF Changed
<1> HIDE DEF l
<1>3. \A p \in DOMAIN l : l[p] \in Page /\ p \in 1 .. MaxPages
  BY <1>1, <1>2
<1>4. DOMAIN r = DOMAIN cache \cup load /\ load \subseteq DOMAIN l /\ load \cap DOMAIN cache = {}
  BY <1>1 DEF Restored, Loads
<1>5. ASSUME NEW p \in DOMAIN cache
      PROVE  /\ r[p] \in [data : Page, dirty : BOOLEAN, sync : BOOLEAN]
             /\ r[p].dirty = cache[p].dirty /\ r[p].sync = cache[p].sync
             /\ r[p].data = IF p \in DOMAIN l THEN l[p] ELSE cache[p].data
             /\ p \notin DOMAIN l => r[p] = cache[p]
             /\ r[p].sync => r[p].dirty
  <2> DEFINE x == cache[p]
             y == [x EXCEPT !.data = l[p]]
  <2>1. x \in [data : Page, dirty : BOOLEAN, sync : BOOLEAN] /\ (x.sync => x.dirty)
    BY DEF CacheType
  <2>2. r[p] = IF p \in DOMAIN l THEN y ELSE x
    BY DEF Restored
  <2> HIDE DEF x
  <2>3. l[p] \in Page => y \in [data : Page, dirty : BOOLEAN, sync : BOOLEAN]
    BY <2>1
  <2>4. y.dirty = x.dirty /\ y.sync = x.sync
    BY <2>1
  <2>5. y.data = l[p]
    BY <2>1
  <2> HIDE DEF y
  <2>6. CASE p \in DOMAIN l
    BY <1>3, <2>1, <2>2, <2>3, <2>4, <2>5, <2>6 DEF x
  <2>7. CASE p \notin DOMAIN l
    BY <2>1, <2>2, <2>7 DEF x
  <2>8. QED
    BY <2>6, <2>7
<1>6. ASSUME NEW p \in load
      PROVE  /\ r[p] \in [data : Page, dirty : BOOLEAN, sync : BOOLEAN]
             /\ r[p].dirty = TRUE /\ r[p].sync = FALSE /\ r[p].data = l[p]
  <2> DEFINE e == [data |-> l[p], dirty |-> TRUE, sync |-> FALSE]
  <2>1. r[p] = e
    BY <1>4 DEF Restored
  <2>2. l[p] \in Page
    BY <1>3, <1>4
  <2>3. e \in [data : Page, dirty : BOOLEAN, sync : BOOLEAN]
    BY <2>2
  <2>4. QED
    BY <2>1, <2>3
<1> HIDE DEF r
<1>7. CacheType(r)
  BY <1>3, <1>4, <1>5, <1>6 DEF CacheType
<1>8. \A p \in DOMAIN cache : (\A k \in S : c[k].pgno # p) => r[p] = cache[p]
  BY <1>1, <1>5
<1>9. \A p \in DOMAIN r : \/ p \in DOMAIN cache /\ r[p].data = cache[p].data
                          \/ \E k \in S : c[k].pgno = p /\ r[p].data = c[k].data
  <2> TAKE p \in DOMAIN r
  <2>1. CASE p \in DOMAIN l
    <3>1. r[p].data = l[p]
      BY <1>4, <1>5, <1>6, <2>1
    <3>2. QED
      BY <1>1, <2>1, <3>1
  <2>2. CASE p \notin DOMAIN l
    BY <1>4, <1>5, <2>2
  <2>3. QED
    BY <2>1, <2>2
<1>10. ASSUME OncePerPage(c), NEW k \in S, c[k].pgno \in DOMAIN r PROVE r[c[k].pgno].data = c[k].data
  <2>1. c[k].pgno \in DOMAIN l /\ l[c[k].pgno] = c[k].data
    BY <1>1, <1>10
  <2>2. QED
    BY <1>4, <1>5, <1>6, <1>10, <2>1
<1>11. QED
  BY <1>4, <1>5, <1>6, <1>7, <1>8, <1>9, <1>10 DEF r, l, S, RestoredFrom

(***************************************************************************)
(* Writing pages to the database file.                                     *)
(***************************************************************************)
\* The pages S of the cache are written to the file f, which becomes s; those of C are clean then.
WritesOut(g, f, w, s, C, S) ==
    /\ s = Stored(f, [p \in S |-> g.cache[p].data])
    /\ S \subseteq {p \in DOMAIN g.cache : p <= g.dbSize /\ ~g.cache[p].sync}
    /\ \A p \in DOMAIN g.cache : p \in C => ~g.cache[p].sync /\ (g.cache[p].dirty /\ p <= g.dbSize => p \in S)
    /\ DOMAIN w = Fields /\ SameCore(g, w) /\ w.dbSize = g.dbSize /\ w.sub = g.sub /\ w.aSavepoint = g.aSavepoint
    /\ w.dbFileSize = Bigger(g.dbFileSize, Len(s))
    /\ DOMAIN w.cache = DOMAIN g.cache
    /\ \A p \in DOMAIN g.cache :
          /\ w.cache[p] \in [data : Page, dirty : BOOLEAN, sync : BOOLEAN]
          /\ w.cache[p].data = g.cache[p].data /\ w.cache[p].sync = g.cache[p].sync
          /\ w.cache[p].dirty = (p \notin C /\ g.cache[p].dirty)

\* What pager_write_pagelist writes out and leaves clean.
LEMMA WritesOutFacts ==
    ASSUME Sizes, NEW g, PagerType(g), g.eState = "DBMOD", NEW f, DataFile(f), NEW J, CacheRight(g, J, f),
           OwnRecords => ContentRight(g, J, f), RecordsRight(g, J),
           NEW w, NEW s, NEW C, NEW S, WritesOut(g, f, w, s, C, S)
    PROVE  /\ PagerType(w) /\ DataFile(s) /\ CacheRight(w, J, s) /\ (OwnRecords => ContentRight(w, J, s))
           /\ PagesOf(w, s) = PagesOf(g, f) /\ (SavesRight(g, J, f) => SavesRight(w, J, s))
<1> DEFINE pages == [p \in S |-> g.cache[p].data]
<1>1. /\ s = Stored(f, pages)
      /\ \A p \in S : p \in DOMAIN g.cache /\ p <= g.dbSize /\ ~g.cache[p].sync
      /\ \A p \in DOMAIN g.cache : p \in C => ~g.cache[p].sync /\ (g.cache[p].dirty /\ p <= g.dbSize => p \in S)
      /\ DOMAIN w = Fields /\ SameCore(g, w) /\ w.dbSize = g.dbSize /\ w.sub = g.sub /\ w.aSavepoint = g.aSavepoint
      /\ w.dbFileSize = Bigger(g.dbFileSize, Len(s))
      /\ DOMAIN w.cache = DOMAIN g.cache
  BY DEF WritesOut
<1>2. \A p \in DOMAIN g.cache :
          /\ w.cache[p] \in [data : Page, dirty : BOOLEAN, sync : BOOLEAN]
          /\ w.cache[p].data = g.cache[p].data /\ w.cache[p].sync = g.cache[p].sync
          /\ w.cache[p].dirty = (p \notin C /\ g.cache[p].dirty)
  BY DEF WritesOut
<1>3. /\ CacheType(g.cache) /\ g.dbSize \in 0 .. MaxPages /\ g.dbOrigSize \in 0 .. MaxPages /\ MaxPages \in Nat
      /\ DOMAIN g.cache \subseteq 1 .. MaxPages /\ g.dbFileSize \in Nat
      /\ \A p \in DOMAIN g.cache : g.cache[p].data \in Page /\ (g.cache[p].sync => g.cache[p].dirty)
  BY DEF PagerType, CacheType, Sizes
<1>4. Numbered(f) /\ Len(f) \in Nat /\ Len(f) <= MaxPages /\ \A p \in 1 .. Len(f) : f[p] \in Page
  BY DEF DataFile, Numbered
<1>5. DOMAIN pages = S /\ S \subseteq 1 .. MaxPages /\ \A p \in S : pages[p] = g.cache[p].data
  BY <1>1, <1>3
<1> HIDE DEF pages
<1>6. /\ Numbered(s) /\ Len(s) >= Len(f) /\ (Len(s) = Len(f) \/ Len(s) \in S)
      /\ \A p \in S : p <= Len(s)
      /\ \A p \in 1 .. Len(s) : s[p] = IF p \in S THEN pages[p] ELSE IF p <= Len(f) THEN f[p] ELSE Zero
  <2>1. DOMAIN pages \subseteq 1 .. MaxPages
    BY <1>5
  <2> HIDE DEF pages
  <2>2. /\ Numbered(s) /\ Len(s) >= Len(f) /\ (Len(s) = Len(f) \/ Len(s) \in DOMAIN pages)
        /\ \A p \in DOMAIN pages : p <= Len(s)
        /\ \A p \in 1 .. Len(s) : s[p] = IF p \in DOMAIN pages THEN pages[p] ELSE IF p <= Len(f) THEN f[p] ELSE Zero
    BY <1>1, <1>3, <1>4, <2>1, StoredFacts
  <2>3. QED
    BY <1>5, <2>2
<1>7. Len(s) \in Nat /\ Len(s) <= MaxPages
  <2>1. Len(s) \in Nat
    BY <1>6 DEF Numbered
  <2>2. Len(s) \in S => Len(s) <= MaxPages
    BY <1>3, <1>5
  <2>3. QED
    BY <1>4, <1>6, <2>1, <2>2
<1>8. Zero \in Page
  BY DEF Sizes, Zero, Page, MaxVersion
<1>9. \A p \in 1 .. Len(s) : s[p] \in Page
  BY <1>1, <1>3, <1>4, <1>5, <1>6, <1>8
<1>10. DataFile(s)
  BY <1>6, <1>7, <1>9 DEF DataFile
<1>11. \A p \in 1 .. Len(f) : p \notin S => s[p] = f[p]
  BY <1>4, <1>6, <1>7
<1>12. \A p \in S : p \in 1 .. Len(s) /\ s[p] = g.cache[p].data
  BY <1>5, <1>6, <1>7
<1>13. w.dbFileSize = Len(s)
  <2>1. g.dbFileSize = Len(f)
    BY DEF CacheRight
  <2>2. QED
    BY <1>1, <1>4, <1>6, <1>7, <2>1 DEF Bigger
<1>14. CacheType(w.cache)
  BY <1>1, <1>2, <1>3 DEF CacheType
<1>15. PagerType(w)
  BY <1>1, <1>7, <1>13, <1>14 DEF PagerType, SameCore
<1>16. Records(w, J) = Records(g, J) /\ w.journalHdr = g.journalHdr /\ w.dbOrigSize = g.dbOrigSize
       /\ w.pInJournal = g.pInJournal /\ w.eState = g.eState
  BY <1>1, SameCoreFacts DEF SameCore
<1>17. ASSUME NEW b \in Records(g, J), b > g.journalHdr
       PROVE  /\ J[b].pgno \in g.pInJournal /\ J[b].pgno \in DOMAIN g.cache /\ g.cache[J[b].pgno].sync
              /\ J[b].pgno \in 1 .. Len(f) /\ J[b].pgno \notin S
  <2>1. J[b].pgno \in g.pInJournal /\ J[b].pgno \in DOMAIN g.cache /\ g.cache[J[b].pgno].sync
    BY <1>17 DEF RecordsRight, CacheRight
  <2>2. g.pInJournal \subseteq 1 .. g.dbOrigSize /\ g.dbOrigSize <= Len(f)
    BY DEF PagerType, CacheRight
  <2>3. QED
    BY <1>1, <1>3, <1>4, <2>1, <2>2
<1>18. CacheRight(w, J, s)
  <2>1. /\ w.pInJournal \subseteq DOMAIN w.cache
        /\ w.dbOrigSize <= w.dbSize
        /\ \A p \in w.dbOrigSize + 1 .. w.dbSize : p \in DOMAIN w.cache
    BY <1>1, <1>16 DEF CacheRight
  <2>2. w.dbOrigSize <= Len(s)
    BY <1>3, <1>4, <1>6, <1>7, <1>16 DEF CacheRight
  <2>3. \A b \in Records(w, J) : b > w.journalHdr => w.cache[J[b].pgno].sync
    BY <1>2, <1>16, <1>17
  <2>4. ASSUME NEW p \in DOMAIN g.cache, ~w.cache[p].dirty, p <= g.dbSize PROVE p <= Len(s)
    <3>1. CASE g.cache[p].dirty
      BY <1>1, <1>2, <1>6, <2>4, <3>1
    <3>2. CASE ~g.cache[p].dirty
      <4>1. p <= Len(f) /\ p \in Nat
        BY <1>3, <2>4, <3>2 DEF CacheRight
      <4>2. QED
        BY <1>4, <1>6, <1>7, <4>1
    <3>3. QED
      BY <3>1, <3>2
  <2>5. QED
    BY <1>1, <1>13, <1>16, <2>1, <2>2, <2>3, <2>4 DEF CacheRight
<1>19. ASSUME OwnRecords PROVE ContentRight(w, J, s)
  <2>0. ContentRight(g, J, f)
    BY <1>19
  <2>1. \A b \in Records(w, J) : b > w.journalHdr => J[b].data = s[J[b].pgno]
    BY <1>11, <1>16, <1>17, <2>0 DEF ContentRight
  <2>2. ASSUME NEW p \in DOMAIN g.cache, p <= g.dbOrigSize, p \notin g.pInJournal PROVE w.cache[p].data = s[p]
    <3>1. g.cache[p].data = f[p] /\ p \in 1 .. Len(f)
      BY <1>3, <1>4, <2>0, <2>2 DEF ContentRight, CacheRight
    <3>2. QED
      BY <1>2, <1>11, <1>12, <3>1
  <2>3. ASSUME NEW p \in DOMAIN g.cache, ~w.cache[p].dirty, p <= g.dbSize PROVE w.cache[p].data = s[p]
    <3>1. CASE g.cache[p].dirty
      BY <1>1, <1>2, <1>12, <2>3, <3>1
    <3>2. CASE ~g.cache[p].dirty
      <4>1. p \in 1 .. Len(f) /\ g.cache[p].data = f[p]
        BY <1>3, <1>4, <2>0, <2>3, <3>2 DEF CacheRight, ContentRight
      <4>2. QED
        BY <1>2, <1>11, <1>12, <4>1
    <3>3. QED
      BY <3>1, <3>2
  <2>4. QED
    BY <1>1, <1>16, <2>1, <2>2, <2>3 DEF ContentRight
<1>20. PagesOf(w, s) = PagesOf(g, f)
  <2>1. CASE 1 \in DOMAIN g.cache
    BY <1>1, <1>2, <2>1 DEF PagesOf, Get
  <2>2. CASE 1 \notin DOMAIN g.cache
    <3>1. 1 \notin S
      BY <1>1, <2>2
    <3>2. 1 <= Len(s) => s[1] = IF 1 <= Len(f) THEN f[1] ELSE Zero
      BY <1>6, <1>7, <3>1
    <3>3. 1 <= Len(f) => 1 <= Len(s)
      BY <1>4, <1>6, <1>7
    <3>4. QED
      BY <1>1, <2>2, <3>2, <3>3 DEF PagesOf, Get
  <2>3. QED
    BY <2>1, <2>2
<1>21. ASSUME SavesRight(g, J, f) PROVE SavesRight(w, J, s)
  <2>1. SubRight(w)
    BY <1>1, <1>16, <1>21 DEF SavesRight, SubRight
  <2>2. LastOf(w) = LastOf(g)
    BY <1>1, SameCoreFacts
  <2>3. ASSUME NEW sp, SaveRight(g, J, f, sp) PROVE SaveRight(w, J, s, sp)
    <3>1. MainOne(w, J, sp) = MainOne(g, J, sp) /\ SubOne(w, sp) = SubOne(g, sp)
      BY <1>1, <1>16 DEF MainOne, SubOne
    <3>2. FirstOne(w, J, s, sp)
      <4>1. FirstOne(g, J, f, sp)
        BY <2>3 DEF SaveRight
      <4>2. QED
        BY <1>1, <1>20, <3>1, <4>1 DEF FirstOne
    <3>3. QED
      BY <1>1, <1>16, <2>2, <2>3, <3>2 DEF SaveRight
  <2>4. QED
    BY <1>1, <1>16, <1>20, <1>21, <2>1, <2>3 DEF SavesRight
<1>22. QED
  BY <1>10, <1>15, <1>18, <1>19, <1>20, <1>21

\* After a spill the pager is ready.
LEMMA WritesOutReady ==
    ASSUME Sizes, NEW g, NEW J, NEW f, NEW safe, NEW v, Ready(g, J, f, safe, v), g.eState = "DBMOD",
           NEW w, NEW s, NEW C, NEW S, WritesOut(g, f, w, s, C, S)
    PROVE  Ready(w, J, s, safe, v) /\ PagesOf(w, s) = PagesOf(g, f)
<1>1. /\ PagerType(g) /\ DataFile(f) /\ CacheRight(g, J, f) /\ (OwnRecords => ContentRight(g, J, f))
      /\ RecordsRight(g, J) /\ SavesRight(g, J, f)
  BY DEF Ready
<1>2. /\ PagerType(w) /\ DataFile(s) /\ CacheRight(w, J, s) /\ (OwnRecords => ContentRight(w, J, s))
      /\ PagesOf(w, s) = PagesOf(g, f) /\ SavesRight(w, J, s)
  BY <1>1, WritesOutFacts
<1>3. SameCore(g, w)
  BY DEF WritesOut
<1>4. LastOf(w) = LastOf(g) /\ Layout(w, J) /\ RecordsRight(w, J) /\ SyncedRight(w, J, safe)
  BY <1>3, SameCoreFacts DEF Ready
<1>5. QED
  BY <1>2, <1>3, <1>4 DEF Ready, SameCore

\* pager_write_pagelist keeps the invariant, also when it fails half way.
LEMMA WritePagesRight ==
    ASSUME WholeInv, WritePages
    PROVE  WholeInv'
<1> DEFINE J == jrnl.vis
           f == db.vis
           pages == {p \in IF pc.task = "spill" THEN {pc.page} ELSE Dirty : p <= pager.dbSize}
           file(S) == Stored(f, [p \in S |-> pager.cache[p].data])
           grown(s) == Bigger(pager.dbFileSize, Len(s))
           C == {p \in DOMAIN pager.cache : pc.task = "commit" \/ p = pc.page}
           clean == [p \in DOMAIN pager.cache |->
                        IF pc.task = "commit" \/ p = pc.page THEN [pager.cache[p] EXCEPT !.dirty = FALSE] ELSE pager.cache[p]]
           w == [pager EXCEPT !.dbFileSize = grown(file(pages)), !.cache = clean]
           part(q) == file({p \in pages : p < q})
           x(q) == [pager EXCEPT !.dbFileSize = grown(part(q))]
<1>1. pc.at = "writePages" /\ setting' = setting /\ ver' = ver /\ jrnl' = jrnl /\ gone' = gone
  BY DEF WritePages
<1>2. \/ /\ db' = Seen(db, file(pages)) /\ pager' = w
         /\ IF pc.task = "spill" THEN pc' = Idle ELSE Goto("syncDb")
         /\ faults' = faults
      \/ \E q \in pages : MayFail /\ db' = Seen(db, part(q)) /\ Failed(x(q))
  BY DEF WritePages
<1>3. /\ pc.task \in {"spill", "commit"} /\ pager.eState = "DBMOD"
      /\ pc.task = "spill" => pager.header # 0
      /\ pc.task = "commit" => pager.header = 0
  BY <1>1 DEF WholeInv, Flow, Idle
<1>4. /\ Layout(pager, J) /\ RecordsRight(pager, J) /\ SyncedRight(pager, J, jrnl.safe)
      /\ CacheRight(pager, J, f) /\ (OwnRecords => ContentRight(pager, J, f)) /\ Stage
  BY <1>3 DEF WholeInv, WriterRight, Opened3
<1>5. /\ JournalFile(J, ver) /\ JournalFile(jrnl.safe, ver) /\ JournalFile(gone.vis, ver) /\ JournalFile(gone.safe, ver)
      /\ pager.nonce <= ver /\ DataFile(f) /\ DOMAIN pc = {"at", "task", "page"} /\ DataFile(db.safe) /\ setting \in Settings
  BY DEF WholeInv, Basics
<1>6. Sizes /\ ver \in Nat /\ ver <= MaxVersion /\ faults \in Nat /\ DOMAIN pager = Fields /\ PagerType(pager)
  BY Bounds
<1>7. pager.journalOff = LastOf(pager) /\ \A p \in C : ~pager.cache[p].sync
  BY <1>1, <1>3, <1>4 DEF Stage
<1>8. /\ CacheType(pager.cache)
      /\ \A p \in DOMAIN pager.cache : pager.cache[p] \in [data : Page, dirty : BOOLEAN, sync : BOOLEAN]
  BY <1>6 DEF PagerType, CacheType
<1>9. pages \subseteq {p \in DOMAIN pager.cache : p <= pager.dbSize /\ ~pager.cache[p].sync}
  <2>1. pc.task = "spill" => pc.page \in DOMAIN pager.cache
    BY <1>4 DEF Stage
  <2>2. QED
    BY <1>3, <1>7, <2>1 DEF Dirty
<1>10. \A p \in DOMAIN pager.cache : p \in C => ~pager.cache[p].sync /\ (pager.cache[p].dirty /\ p <= pager.dbSize => p \in pages)
  BY <1>3, <1>7 DEF Dirty
<1> HIDE DEF pages
<1>11. ASSUME /\ db' = Seen(db, file(pages)) /\ pager' = w
              /\ IF pc.task = "spill" THEN pc' = Idle ELSE Goto("syncDb")
              /\ faults' = faults
       PROVE  WholeInv'
  <2> DEFINE s == file(pages)
  <2>1. db'.vis = s /\ db'.safe = db.safe
    BY <1>11 DEF Seen
  <2>2. /\ DOMAIN w = Fields /\ SameCore(pager, w) /\ w.dbSize = pager.dbSize /\ w.sub = pager.sub
        /\ w.aSavepoint = pager.aSavepoint /\ w.dbFileSize = Bigger(pager.dbFileSize, Len(s)) /\ w.cache = clean
    BY <1>6 DEF Fields, SameCore
  <2>3. DOMAIN clean = DOMAIN pager.cache
    OBVIOUS
  <2>4. ASSUME NEW p \in DOMAIN pager.cache
        PROVE  /\ clean[p] \in [data : Page, dirty : BOOLEAN, sync : BOOLEAN]
               /\ clean[p].data = pager.cache[p].data /\ clean[p].sync = pager.cache[p].sync
               /\ clean[p].dirty = (p \notin C /\ pager.cache[p].dirty)
    <3> DEFINE a == pager.cache[p]
               b == [a EXCEPT !.dirty = FALSE]
    <3>1. a \in [data : Page, dirty : BOOLEAN, sync : BOOLEAN]
      BY <1>8
    <3>2. clean[p] = IF p \in C THEN b ELSE a
      OBVIOUS
    <3> HIDE DEF a, C, clean
    <3>3. b \in [data : Page, dirty : BOOLEAN, sync : BOOLEAN]
      BY <3>1
    <3>4. b.data = a.data /\ b.sync = a.sync
      BY <3>1
    <3>5. b.dirty = FALSE
      BY <3>1
    <3> HIDE DEF b
    <3>6. CASE p \in C
      BY <3>2, <3>3, <3>4, <3>5, <3>6 DEF a
    <3>7. CASE p \notin C
      <4>1. a.dirty \in BOOLEAN
        BY <3>1
      <4>2. QED
        BY <3>1, <3>2, <3>7, <4>1 DEF a
    <3>8. QED
      BY <3>6, <3>7
  <2>5. s = Stored(f, [p \in pages |-> pager.cache[p].data])
    OBVIOUS
  <2> HIDE DEF w, clean, C, s
  <2>6. WritesOut(pager, f, w, s, C, pages)
    BY <1>9, <1>10, <2>2, <2>3, <2>4, <2>5 DEF WritesOut
  <2>7. CASE pc.task = "spill"
    <3>1. pc' = Idle /\ pager.header # 0 /\ pc.at # "mustRollBack" /\ pc.task # "rollback"
      BY <1>1, <1>3, <1>11, <2>7
    <3>2. SavesRight(pager, J, f) /\ PagesOf(pager, f) <= pager.dbSize /\ pager.dbSize > 0
      BY <1>3, <3>1 DEF WholeInv, WriterRight, Opened3
    <3>3. pager.header = pager.journalHdr + 1 /\ ~J[pager.journalHdr + 1].magic /\ J[pager.journalHdr + 1].n = 0
      BY <1>1, <1>3, <1>4, <3>1 DEF Stage, Layout
    <3>4. JournalFile(J, ver + 1) /\ pager.nonce < ver + 1
      <4>1. ver + 1 \in Nat /\ ver <= ver + 1 /\ pager.nonce \in Nat
        BY <1>6 DEF PagerType
      <4>2. QED
        BY <1>5, <1>6, <4>1, OlderBlocks
    <3>5. Ready(pager, J, f, jrnl.safe, ver + 1)
      BY <1>3, <1>4, <1>5, <1>6, <1>7, <3>1, <3>2, <3>3, <3>4 DEF Ready
    <3>6. Ready(w, J, s, jrnl.safe, ver + 1) /\ PagesOf(w, s) = PagesOf(pager, f)
      BY <1>3, <1>6, <2>6, <3>5, WritesOutReady
    <3>7. /\ Ready(pager', jrnl.vis, db'.vis, jrnl.safe, ver + 1) /\ pager'.nonce = pager.nonce
          /\ PagesOf(pager', db'.vis) <= pager'.dbSize /\ pager'.dbSize > 0
      BY <1>11, <2>1, <2>2, <3>2, <3>6 DEF SameCore
    <3>8. QED
      BY <1>1, <1>11, <2>1, <3>1, <3>7, QuietRight
  <2>8. CASE pc.task = "commit"
    <3>1. /\ DOMAIN pc' = {"at", "task", "page"} /\ pc'.at = "syncDb" /\ pc'.task = "commit"
      BY <1>5, <1>11, <2>8 DEF Goto
    <3>2. /\ PagerType(w) /\ DataFile(s) /\ CacheRight(w, J, s) /\ (OwnRecords => ContentRight(w, J, s))
      BY <1>3, <1>4, <1>5, <1>6, <2>6, WritesOutFacts
    <3>3. LastOf(w) = LastOf(pager) /\ Layout(w, J) /\ RecordsRight(w, J) /\ SyncedRight(w, J, jrnl.safe)
      BY <1>4, <2>2, SameCoreFacts
    <3>4. w.eState = "DBMOD" /\ w.header = 0 /\ w.journalOff = LastOf(w) /\ w.nonce = pager.nonce
      BY <1>3, <1>7, <2>2, <2>8, <3>3 DEF SameCore
    <3>5. Basics'
      BY <1>1, <1>5, <1>6, <1>11, <2>1, <3>1, <3>2, <3>4, BasicsRight
    <3>6. Flow' /\ OpenRight' /\ ReaderRight' /\ LockedRight'
      BY <1>11, <3>1, <3>4 DEF Flow, OpenRight, ReaderRight, LockedRight
    <3>7. OwnRecords' => OwnRecords
      BY <1>1, <1>6, <1>11, CarriedOwn
    <3>8. \A p \in DOMAIN w.cache : ~w.cache[p].dirty
      <4>1. \A p \in DOMAIN pager.cache : p \in C
        BY <2>8 DEF C
      <4>2. QED
        BY <2>2, <2>3, <2>4, <4>1
    <3>9. \A p \in DOMAIN w.cache : p <= w.dbSize => p <= Len(s) /\ (OwnRecords => w.cache[p].data = s[p])
      BY <3>2, <3>8 DEF CacheRight, ContentRight
    <3>10. Stage'
      BY <1>11, <2>1, <3>1, <3>4, <3>7, <3>9 DEF Stage
    <3>11. WriterRight'
      BY <1>1, <1>11, <2>1, <3>1, <3>2, <3>3, <3>4, <3>7, <3>10 DEF WriterRight
    <3>12. QED
      BY <3>5, <3>6, <3>11 DEF WholeInv
  <2>9. QED
    BY <1>3, <2>7, <2>8
<1>12. ASSUME NEW q \in pages, MayFail, db' = Seen(db, part(q)), Failed(x(q))
       PROVE  WholeInv'
  <2> DEFINE S == {p \in pages : p < q}
             s == file(S)
             y == [pager EXCEPT !.dbFileSize = grown(s)]
  <2>1. db'.vis = s /\ db'.safe = db.safe /\ Failed(y)
    BY <1>12 DEF Seen
  <2>2. S \subseteq {p \in DOMAIN pager.cache : p <= pager.dbSize /\ ~pager.cache[p].sync}
    BY <1>9
  <2>3. s = Stored(f, [p \in S |-> pager.cache[p].data])
    OBVIOUS
  <2>4. /\ DOMAIN y = Fields /\ SameCore(pager, y) /\ y.dbSize = pager.dbSize /\ y.sub = pager.sub
        /\ y.aSavepoint = pager.aSavepoint /\ y.dbFileSize = Bigger(pager.dbFileSize, Len(s)) /\ y.cache = pager.cache
    BY <1>6 DEF Fields, SameCore
  <2> HIDE DEF S, s, y
  <2>5. WritesOut(pager, f, y, s, {}, S)
    <3>1. \A p \in DOMAIN pager.cache : pager.cache[p].dirty \in BOOLEAN
      BY <1>8
    <3>2. QED
      BY <1>8, <2>2, <2>3, <2>4, <3>1 DEF WritesOut
  <2>6. /\ PagerType(y) /\ DataFile(s) /\ CacheRight(y, J, s) /\ (OwnRecords => ContentRight(y, J, s))
    BY <1>3, <1>4, <1>5, <1>6, <2>5, WritesOutFacts
  <2>7. Layout(y, J) /\ RecordsRight(y, J) /\ SyncedRight(y, J, jrnl.safe)
    BY <1>4, <2>4, SameCoreFacts
  <2>8. y.eState = "DBMOD" /\ y.header = pager.header /\ y.nonce <= ver
    BY <1>3, <1>5, <2>4 DEF SameCore
  <2>9. pc.task = "commit" => CanRollBack(y, jrnl'.vis, db'.vis, jrnl.safe)
    BY <1>1, <1>3, <2>1, <2>6, <2>7, <2>8 DEF CanRollBack
  <2>10. DataFile(db'.vis) /\ JournalFile(jrnl'.vis, ver) /\ jrnl'.safe = jrnl.safe
    BY <1>1, <1>5, <2>1, <2>6
  <2>11. QED
    BY <1>1, <1>12, <2>1, <2>6, <2>8, <2>9, <2>10, FailedRight
<1>13. QED
  BY <1>2, <1>11, <1>12

\* The database file is synced: a commit has it, a roll back has it back.
LEMMA SyncDbRight ==
    ASSUME WholeInv, SyncDb
    PROVE  WholeInv'
<1> DEFINE J == jrnl.vis
           f == db.vis
           w == IF pc.task = "commit" THEN [pager EXCEPT !.eState = "FINISHED"] ELSE pager
<1>1. /\ pc.at = "syncDb" /\ setting' = setting /\ ver' = ver /\ jrnl' = jrnl /\ gone' = gone
      /\ \/ db' = Synced(db) /\ pager' = w /\ Goto("finalize") /\ faults' = faults
         \/ MayFail /\ Failed(pager) /\ db' = db
  BY DEF SyncDb
<1>2. /\ JournalFile(J, ver) /\ JournalFile(jrnl.safe, ver) /\ JournalFile(gone.vis, ver) /\ JournalFile(gone.safe, ver)
      /\ pager.nonce <= ver /\ DataFile(f) /\ DOMAIN pc = {"at", "task", "page"} /\ DataFile(db.safe) /\ setting \in Settings
  BY DEF WholeInv, Basics
<1>3. Sizes /\ ver \in Nat /\ ver <= MaxVersion /\ faults \in Nat /\ DOMAIN pager = Fields /\ PagerType(pager)
  BY Bounds
<1>4. \/ pc.task = "commit" /\ pager.eState = "DBMOD" /\ pager.header = 0
      \/ pc.task = "rollback" /\ pager.eState = "DBMOD"
      \/ pc.task = "recover" /\ pager.eState = "OPEN"
  BY <1>1 DEF WholeInv, Flow, Idle
<1>5. pager.eState = "DBMOD" =>
          /\ Layout(pager, J) /\ RecordsRight(pager, J) /\ SyncedRight(pager, J, jrnl.safe)
          /\ CacheRight(pager, J, f) /\ (OwnRecords => ContentRight(pager, J, f)) /\ Stage
  BY DEF WholeInv, WriterRight, Opened3
<1>6. CASE MayFail /\ Failed(pager) /\ db' = db
  <2>1. pc.task = "commit" => CanRollBack(pager, jrnl'.vis, db'.vis, jrnl.safe)
    BY <1>1, <1>4, <1>5, <1>6 DEF CanRollBack
  <2>2. QED
    BY <1>1, <1>2, <1>3, <1>6, <2>1, FailedRight
<1>7. CASE db' = Synced(db) /\ pager' = w /\ Goto("finalize") /\ faults' = faults
  <2>1. db'.vis = f /\ db'.safe = f
    BY <1>7 DEF Synced
  <2>2. DOMAIN pc' = {"at", "task", "page"} /\ pc'.at = "finalize" /\ pc'.task = pc.task
    BY <1>2, <1>7 DEF Goto
  <2>3. /\ DOMAIN w = Fields /\ w.jfd = pager.jfd /\ w.dbSize = pager.dbSize /\ w.dbOrigSize = pager.dbOrigSize
        /\ w.dbFileSize = pager.dbFileSize /\ w.nRec = pager.nRec /\ w.journalOff = pager.journalOff
        /\ w.journalHdr = pager.journalHdr /\ w.header = pager.header /\ w.nonce = pager.nonce
        /\ w.pInJournal = pager.pInJournal /\ w.cache = pager.cache /\ w.sub = pager.sub /\ w.aSavepoint = pager.aSavepoint
        /\ w.eState = IF pc.task = "commit" THEN "FINISHED" ELSE pager.eState
    BY <1>3 DEF Fields
  <2> HIDE DEF w
  <2>4. PagerType(w)
    <3>1. w.eState \in {"OPEN", "READER", "ERROR"} \cup Writer
      BY <1>3, <2>3 DEF PagerType, Writer
    <3>2. QED
      BY <1>3, <2>3, <3>1 DEF PagerType
  <2>5. Basics'
    BY <1>1, <1>2, <1>3, <1>7, <2>1, <2>2, <2>3, <2>4, BasicsRight
  <2>6. Flow'
    BY <1>4, <1>7, <2>2, <2>3 DEF Flow
  <2>7. OwnRecords' => OwnRecords
    BY <1>1, <1>3, <1>7, CarriedOwn
  <2>8. ReaderRight' /\ LockedRight'
    BY <1>4, <1>7, <2>3 DEF ReaderRight, LockedRight
  <2>9. OpenRight'
    BY <1>1, <1>4, <1>7, <2>2, <2>3 DEF OpenRight, WholeInv
  <2>10. CASE pager.eState = "DBMOD"
    <3>1. LastOf(w) = LastOf(pager) /\ Records(w, J) = Records(pager, J)
      BY <2>3 DEF LastOf, Records
    <3>2. InProgressRight(pager, J) => InProgressRight(w, J)
      BY <2>3, <3>1 DEF InProgressRight
    <3>3. Layout(w, J)
      BY <1>5, <2>3, <2>10, <3>1, <3>2 DEF Layout
    <3>4. RecordsRight(w, J) /\ SyncedRight(w, J, jrnl.safe)
      BY <1>5, <2>3, <2>10, <3>1 DEF RecordsRight, SyncedRight
    <3>5. CacheRight(w, J, f)
      BY <1>5, <2>3, <2>10, <3>1 DEF CacheRight
    <3>6. OwnRecords => ContentRight(w, J, f)
      BY <1>5, <2>3, <2>10, <3>1 DEF ContentRight
    <3>7. Stage'
      BY <1>1, <1>4, <1>5, <1>7, <2>1, <2>2, <2>3, <2>7, <2>10, <3>1 DEF Stage
    <3>8. WriterRight'
      BY <1>1, <1>4, <1>7, <2>1, <2>2, <2>3, <2>7, <2>10, <3>3, <3>4, <3>5, <3>6, <3>7 DEF WriterRight
    <3>9. QED
      BY <2>5, <2>6, <2>8, <2>9, <3>8 DEF WholeInv
  <2>11. CASE pager.eState = "OPEN"
    <3>1. WriterRight'
      BY <1>4, <1>7, <2>3, <2>11 DEF WriterRight, Opened3
    <3>2. QED
      BY <2>5, <2>6, <2>8, <2>9, <3>1 DEF WholeInv
  <2>12. QED
    BY <1>4, <2>10, <2>11
<1>8. QED
  BY <1>1, <1>6, <1>7

\* The header in progress has no count yet, or the one of its records.
HeaderRight(g, J) ==
    g.header # 0 =>
        \/ ~J[g.journalHdr + 1].magic /\ J[g.journalHdr + 1].n = 0
        \/ J[g.journalHdr + 1].magic /\ J[g.journalHdr + 1].n = g.nRec /\ ~MagicAt(J, LastOf(g) + 1)

\* What a reader of the journal takes from a header on are the records of the transaction
\* behind that header.
LEMMA OwnBlocks ==
    ASSUME NEW g, PagerType(g), NEW J, NEW v, JournalFile(J, v), Layout(g, J), HeaderRight(g, J),
           g.header = 0 => ~setting.aligned,
           NEW limit \in Nat, LastOf(g) <= limit, limit <= Len(J),
           NEW from \in 1 .. g.journalHdr + 1, from <= limit, J[from].kind = "hdr" \/ from = g.journalHdr + 1
    PROVE  Blocks(J, from, limit, InProgress(g), FALSE) = RecordsIn(J, from, LastOf(g))
<1> DEFINE h == g.journalHdr
           hdr == InProgress(g)
           last == LastOf(g)
           orig == g.dbOrigSize
<1>1. h \in Nat /\ g.nRec \in Nat /\ last \in Nat /\ Len(J) \in Nat /\ h <= last /\ h <= limit
  BY DEF PagerType, LastOf, JournalFile, Numbered
<1>2. Counted(J, limit)
  <2>1. \A i \in 1 .. limit : i \in 1 .. Len(J)
    BY <1>1
  <2>2. QED
    BY <2>1 DEF Counted, JournalFile, IsBlock
<1>3. Segments(J, h, orig)
  BY DEF Layout
<1>4. hdr = IF g.header = 0 THEN 0 ELSE h + 1
  BY DEF InProgress, Layout
<1>5. hdr \notin 1 .. h
  BY <1>1, <1>4
<1> HIDE DEF hdr, h, last, orig
<1> DEFINE hot == FALSE
<1>0. hot \in BOOLEAN /\ ~hot /\ Blocks(J, from, limit, hdr, FALSE) = Blocks(J, from, limit, hdr, hot)
  OBVIOUS
<1> HIDE DEF hot
<1>6. PICK R : /\ Reads(R, J, limit, hdr, hot)
               /\ \A a \in 1 .. limit : Blocks(J, a, limit, hdr, hot) = R[a]
  BY <1>1, <1>2, BlocksRead
<1>7. from \in 1 .. limit /\ from \in 1 .. h + 1
  BY <1>1 DEF h
<1>8. R[from] = RecordsIn(J, from, h) \cup R[h + 1]
  <2>1. from = h + 1 \/ J[from].kind = "hdr"
    BY DEF h
  <2>2. Reads(R, J, limit, hdr, hot)
    BY <1>6
  <2>3. hot \/ hdr \notin 1 .. h
    BY <1>5
  <2>4. hot \in BOOLEAN /\ h \in Nat /\ h <= limit
    BY <1>0, <1>1
  <2>5. from \in 1 .. h + 1
    BY <1>7
  <2>6. QED
    BY <1>2, <1>3, <2>1, <2>2, <2>3, <2>4, <2>5, SegmentsRead
<1>9. RecordsIn(J, from, h) \cup R[h + 1] = RecordsIn(J, from, last)
  <2>1. CASE g.header = 0
    <3>1. last = h
      BY <2>1 DEF last, h, LastOf
    <3>2. R[h + 1] = {}
      <4>1. h + 1 \in 1 .. limit + 1
        BY <1>1
      <4>2. h + 1 > limit \/ ~IsHeader(J, h + 1, hdr, hot)
        <5>1. ~MagicAt(J, h + 1)
          BY <2>1 DEF Layout, h
        <5>2. h + 1 <= limit => h + 1 <= Len(J)
          BY <1>1
        <5>3. hdr # h + 1
          BY <1>1, <1>4, <2>1
        <5>4. QED
          BY <1>1, <5>1, <5>2, <5>3 DEF MagicAt, IsHeader
      <4>3. QED
        BY <1>6, <4>1, <4>2 DEF Reads
    <3>3. QED
      BY <3>1, <3>2
  <2>2. CASE g.header # 0
    <3> DEFINE i == h + 1
               n == g.nRec
    <3>1. i \in Nat /\ i > 0 /\ n \in Nat /\ last = i + n /\ hdr = i
      BY <1>1, <1>4, <2>2 DEF LastOf, last, h
    <3>2. InProgressRight(g, J)
      BY <2>2 DEF Layout
    <3>3. /\ J[i].kind = "hdr" /\ J[i].nonce = g.nonce
          /\ \A m \in i + 1 .. last : J[m].kind = "rec" /\ J[m].nonce = g.nonce
          /\ \A m \in last + 1 .. Len(J) : ~Good(J, m, g.nonce)
      BY <3>2 DEF InProgressRight, h, last
    <3>4. \/ ~J[i].magic /\ J[i].n = 0
          \/ J[i].magic /\ J[i].n = n /\ ~MagicAt(J, last + 1)
      BY <2>2 DEF HeaderRight, h, last
    <3> HIDE DEF i, n
    <3>5. J[i].n = n \/ (J[i].n = 0 /\ ~hot /\ hdr = i)
      BY <1>0, <3>1, <3>4
    <3>6. i + n = limit \/ ~Good(J, i + n + 1, J[i].nonce)
      <4>1. last # limit => last + 1 \in last + 1 .. Len(J)
        BY <1>1 DEF last
      <4>2. QED
        BY <3>1, <3>3, <4>1
    <3>7. i + n + 1 > limit \/ ~IsHeader(J, i + n + 1, hdr, hot) \/ (~J[i].magic /\ J[i].n = 0)
      <4>1. last + 1 <= limit => last + 1 <= Len(J)
        BY <1>1
      <4>2. last + 1 # hdr /\ (last + 1 > limit \/ last + 1 <= limit)
        BY <1>1, <3>1
      <4>3. QED
        BY <3>1, <3>4, <4>1, <4>2 DEF MagicAt, IsHeader
    <3>8. i + n <= limit
      BY <3>1 DEF last
    <3>9. \A m \in i + 1 .. i + n : J[m].kind = "rec" /\ J[m].nonce = J[i].nonce
      BY <3>1, <3>3
    <3>10. R[i] = i + 1 .. i + n
      <4>1. J[i].magic \/ (~hot /\ hdr = i)
        BY <1>0, <3>1
      <4>2. ~hot => i + n = limit \/ ~Good(J, i + n + 1, J[i].nonce)
        BY <3>6
      <4>3. i \in Nat /\ i > 0 /\ n \in Nat /\ J[i].kind = "hdr"
        BY <3>1, <3>3
      <4>4. LastSegment(J, limit, hdr, hot, i, n)
        BY <3>5, <3>7, <3>8, <3>9, <4>1, <4>2, <4>3 DEF LastSegment
      <4>5. QED
        BY <1>0, <1>2, <1>6, <4>3, <4>4, LastSegmentRead
    <3>11. from \in Nat /\ from <= i
      BY <1>1, <1>7 DEF i
    <3>12. \A k \in from .. last : k \in from .. h \/ k = i \/ k \in i + 1 .. i + n
      BY <1>1, <3>1, <3>11 DEF i
    <3>13. \A k \in from .. h : k \in from .. last
      BY <1>1, <3>11
    <3>14. \A k \in i + 1 .. i + n : k \in from .. last
      BY <1>1, <3>1, <3>11
    <3>15. R[h + 1] = i + 1 .. i + n
      BY <3>10 DEF i
    <3>16. J[i].kind # "rec"
      BY <3>3
    <3>17. QED
      BY <3>9, <3>12, <3>13, <3>14, <3>15, <3>16 DEF RecordsIn
  <2>3. QED
    BY <2>1, <2>2
<1>10. QED
  BY <1>0, <1>6, <1>7, <1>8, <1>9 DEF hdr, last

\* A roll back plays its journal back: the file, if it was written, and the cache hold the
\* pages that the transaction found.
LEMMA PlaybackRight ==
    ASSUME WholeInv, Playback
    PROVE  WholeInv'
<1> DEFINE J == jrnl.vis
           f == db.vis
           hot == pc.task = "recover"
           orig == J[1].orig
           blocks == Blocks(J, 1, Len(J), InProgress(pager), hot)
           all == Changes(J, blocks, orig)
           inFile == pager.eState # "CACHEMOD"
           low(c) == {k \in DOMAIN c : k <= pager.journalHdr}
           file(c) == IF inFile THEN Stored(Sized(f, orig), Latest(c, low(c))) ELSE f
           cache(c) == IF hot /\ blocks # {} THEN <<>> ELSE Restored(pager.cache, Pages(c), {})
           played(c) == [pager EXCEPT !.dbSize = orig, !.cache = cache(c),
                                      !.dbFileSize = IF inFile THEN Len(file(c)) ELSE @]
<1>1. /\ pc.at = "playback" /\ setting' = setting /\ ver' = ver /\ jrnl' = jrnl /\ gone' = gone
      /\ \/ /\ db' = Seen(db, file(all)) /\ pager' = played(all)
            /\ Goto(IF inFile THEN "syncDb" ELSE "finalize") /\ faults' = faults
         \/ \E n \in DOMAIN all : /\ MayFail /\ db' = Seen(db, file(Before(all, n))) /\ Failed(played(Before(all, n)))
  BY DEF Playback
<1>2. /\ JournalFile(J, ver) /\ JournalFile(jrnl.safe, ver) /\ JournalFile(gone.vis, ver) /\ JournalFile(gone.safe, ver)
      /\ pager.nonce <= ver /\ DataFile(f) /\ DOMAIN pc = {"at", "task", "page"} /\ DataFile(db.safe) /\ setting \in Settings
  BY DEF WholeInv, Basics
<1>3. Sizes /\ ver \in Nat /\ ver <= MaxVersion /\ faults \in Nat /\ DOMAIN pager = Fields /\ PagerType(pager)
  BY Bounds
<1>4. \/ pc.task = "rollback" /\ pager.eState \in {"CACHEMOD", "DBMOD"}
      \/ pc.task = "recover" /\ pager.eState = "OPEN"
  <2>1. pc.at = "playback"
    BY <1>1
  <2>2. QED
    BY <2>1 DEF WholeInv, Flow, Idle
<1>5. pager.eState \in {"CACHEMOD", "DBMOD"} =>
          /\ Layout(pager, J) /\ RecordsRight(pager, J) /\ SyncedRight(pager, J, jrnl.safe)
          /\ CacheRight(pager, J, f) /\ (OwnRecords => ContentRight(pager, J, f)) /\ Stage
  BY DEF WholeInv, WriterRight, Opened3
<1>6. /\ Len(J) \in Nat /\ Len(J) > 0 /\ J[1].kind = "hdr" /\ orig \in 0 .. MaxPages
      /\ pc.task = "rollback" => orig = pager.dbOrigSize /\ LastOf(pager) > 0 /\ LastOf(pager) \in Nat
  <2>1. Len(J) \in Nat /\ Numbered(J)
    BY <1>2 DEF JournalFile, Numbered
  <2>2. /\ 1 <= Len(J) /\ J[1].kind = "hdr"
        /\ pc.task = "rollback" => orig = pager.dbOrigSize /\ LastOf(pager) > 0 /\ LastOf(pager) \in Nat
    <3>1. CASE pc.task = "rollback"
      <4>1. Layout(pager, J) /\ LastOf(pager) \in Nat
        BY <1>3, <1>4, <1>5, <3>1 DEF PagerType, LastOf
      <4>2. QED
        BY <2>1, <3>1, <4>1 DEF Layout
    <3>2. CASE pc.task = "recover"
      <4>1. MagicAt(J, 1)
        BY <1>1, <1>4, <3>2 DEF WholeInv, OpenRight
      <4>2. QED
        BY <2>1, <3>2, <4>1 DEF MagicAt
    <3>3. QED
      BY <1>4, <3>1, <3>2
  <2>3. IsBlock(J[1], ver)
    BY <1>2, <2>1, <2>2 DEF JournalFile
  <2>4. QED
    BY <2>1, <2>2, <2>3 DEF IsBlock
<1>7. blocks \subseteq 1 .. Len(J) /\ \A b \in blocks : J[b].kind = "rec"
  <2>1. Counted(J, Len(J))
    BY <1>2 DEF Counted, JournalFile, IsBlock
  <2> DEFINE hdr == InProgress(pager)
  <2>2. ASSUME NEW i, i = 1, NEW h, h = hot
        PROVE  /\ Blocks(J, i, Len(J), hdr, h) \subseteq i + 1 .. Len(J)
               /\ \A b \in Blocks(J, i, Len(J), hdr, h) : J[b].kind = "rec"
    <3>1. i \in Nat /\ i > 0
      BY <2>2
    <3> HIDE DEF hdr
    <3>2. QED
      BY <1>6, <2>1, <3>1, BlocksAreRecords
  <2>3. blocks \subseteq 1 + 1 .. Len(J) /\ \A b \in blocks : J[b].kind = "rec"
    BY <2>2
  <2>4. \A b \in 1 + 1 .. Len(J) : b \in 1 .. Len(J)
    BY <1>6
  <2>5. QED
    BY <2>3, <2>4
<1> HIDE DEF blocks
<1>8. /\ Changed(all, orig) /\ \A b : b \in DOMAIN all <=> b \in blocks /\ J[b].pgno <= orig
      /\ \A b \in DOMAIN all : all[b].pgno = J[b].pgno /\ all[b].data = J[b].data /\ all[b].at = b
  <2>1. orig \in Nat
    BY <1>6
  <2>2. JournalFile(J, ver) /\ RecordBlocks(J, blocks)
    BY <1>2, <1>7 DEF RecordBlocks
  <2> HIDE DEF orig, J
  <2>3. Changed(all, orig) /\ ReadFrom(all, J, blocks, orig)
    BY <2>1, <2>2, ChangesFacts
  <2>4. QED
    BY <2>3 DEF ReadFrom, J, orig
<1> HIDE DEF all
<1>9. ASSUME NEW c, Changed(c, orig)
      PROVE  /\ DataFile(file(c)) /\ (inFile => Len(file(c)) = orig)
             /\ CacheType(cache(c)) /\ PagerType(played(c)) /\ played(c).nonce = pager.nonce
  <2>1. /\ DataFile(Sized(f, orig)) /\ Len(Sized(f, orig)) = orig
    <3>1. DataFile(Sized(f, orig))
      BY <1>2, <1>3, <1>6, SizedFile
    <3>2. Numbered(f) /\ orig \in Nat
      BY <1>2, <1>6 DEF DataFile
    <3>3. QED
      BY <3>1, <3>2, SizedFacts
  <2>2. orig \in Nat /\ orig <= Len(Sized(f, orig)) /\ MaxPages \in Nat /\ orig <= MaxPages
    BY <1>3, <1>6, <2>1 DEF Sizes
  <2>3. DataFile(file(c)) /\ (inFile => Len(file(c)) = orig)
    <3> DEFINE z == Sized(f, orig)
               S == low(c)
    <3>1. S \subseteq DOMAIN c
      OBVIOUS
    <3> HIDE DEF z, S, orig
    <3>2. DataFile(Stored(z, Latest(c, S))) /\ Len(Stored(z, Latest(c, S))) = Len(z)
      BY <1>3, <1>9, <2>1, <2>2, <3>1, StoredChanges DEF z
    <3>3. QED
      BY <1>2, <2>1, <3>2 DEF z, S
  <2>4. CacheType(cache(c))
    <3>1. CacheType(<<>>)
      <4>1. DOMAIN <<>> = {}
        OBVIOUS
      <4>2. QED
        BY <4>1 DEF CacheType
    <3>2. CacheType(Restored(pager.cache, Pages(c), {}))
      <4>1. CacheType(pager.cache)
        BY <1>3 DEF PagerType
      <4>2. Loads({}, c, pager.cache)
        BY DEF Loads
      <4> HIDE DEF orig
      <4>3. QED
        BY <1>9, <2>2, <4>1, <4>2, RestoredChanges DEF RestoredFrom
    <3>3. QED
      BY <3>1, <3>2
  <2> DEFINE k == cache(c)
             d == IF inFile THEN Len(file(c)) ELSE pager.dbFileSize
             w == [pager EXCEPT !.dbSize = orig, !.cache = k, !.dbFileSize = d]
  <2>5. played(c) = w
    OBVIOUS
  <2>6. d \in Nat
    BY <1>3, <2>2, <2>3 DEF PagerType
  <2> HIDE DEF k, d, orig
  <2>7. /\ DOMAIN w = Fields /\ w.dbSize = orig /\ w.cache = k /\ w.dbFileSize = d
        /\ w.eState = pager.eState /\ w.jfd = pager.jfd /\ w.dbOrigSize = pager.dbOrigSize /\ w.nRec = pager.nRec
        /\ w.journalOff = pager.journalOff /\ w.journalHdr = pager.journalHdr /\ w.header = pager.header
        /\ w.nonce = pager.nonce /\ w.pInJournal = pager.pInJournal /\ w.sub = pager.sub /\ w.aSavepoint = pager.aSavepoint
    BY <1>3 DEF Fields
  <2> HIDE DEF w
  <2>8. PagerType(w)
    BY <1>3, <1>6, <2>4, <2>6, <2>7 DEF PagerType, k, orig
  <2>9. QED
    BY <2>3, <2>4, <2>5, <2>7, <2>8 DEF orig
<1>10. CASE \E n \in DOMAIN all : /\ MayFail /\ db' = Seen(db, file(Before(all, n))) /\ Failed(played(Before(all, n)))
  <2>1. PICK n \in DOMAIN all : /\ MayFail /\ db' = Seen(db, file(Before(all, n))) /\ Failed(played(Before(all, n)))
    BY <1>10
  <2> DEFINE c == Before(all, n)
             s == file(c)
             w == played(c)
  <2>2. Changed(c, orig)
    <3>1. orig \in Nat
      BY <1>6
    <3>2. DOMAIN c \subseteq DOMAIN all /\ \A k \in DOMAIN c : c[k] = all[k]
      BY BeforeFacts
    <3> HIDE DEF c, orig
    <3>3. QED
      BY <1>8, <3>1, <3>2, SomeChanges
  <2>3. DataFile(s) /\ PagerType(w) /\ w.nonce = pager.nonce
    <3> HIDE DEF c, file, cache, played
    <3>1. QED
      BY <1>9, <2>2
  <2>4. Failed(w) /\ MayFail /\ db'.vis = s /\ db'.safe = db.safe
    BY <2>1 DEF Seen
  <2> HIDE DEF s, w
  <2>5. pc.task # "commit" /\ w.nonce <= ver /\ jrnl'.safe = jrnl.safe /\ jrnl'.vis = J
    BY <1>1, <1>2, <1>4, <2>3
  <2>6. QED
    BY <1>1, <1>2, <2>3, <2>4, <2>5, FailedRight
<1>11. CASE /\ db' = Seen(db, file(all)) /\ pager' = played(all)
            /\ Goto(IF inFile THEN "syncDb" ELSE "finalize") /\ faults' = faults
  <2> DEFINE s == file(all)
             k == cache(all)
             d == IF inFile THEN Len(s) ELSE pager.dbFileSize
             w == [pager EXCEPT !.dbSize = orig, !.cache = k, !.dbFileSize = d]
  <2>1. DataFile(s) /\ (inFile => Len(s) = orig) /\ CacheType(k) /\ PagerType(w)
    <3>1. played(all) = w
      OBVIOUS
    <3> HIDE DEF file, cache, played, w
    <3>2. QED
      BY <1>8, <1>9, <3>1
  <2>2. pager' = w /\ db'.vis = s /\ db'.safe = db.safe
    BY <1>11 DEF Seen
  <2>3. DOMAIN pc' = {"at", "task", "page"} /\ pc'.task = pc.task /\ pc'.at = IF inFile THEN "syncDb" ELSE "finalize"
    BY <1>2, <1>11 DEF Goto
  <2>4. /\ s = IF inFile THEN Stored(Sized(f, orig), Latest(all, low(all))) ELSE f
        /\ k = IF hot /\ blocks # {} THEN <<>> ELSE Restored(pager.cache, Pages(all), {})
        /\ d = IF inFile THEN Len(s) ELSE pager.dbFileSize
    OBVIOUS
  <2> HIDE DEF s, k, d
  <2>5. /\ DOMAIN w = Fields /\ w.dbSize = orig /\ w.cache = k /\ w.dbFileSize = d
        /\ w.eState = pager.eState /\ w.jfd = pager.jfd /\ w.dbOrigSize = pager.dbOrigSize /\ w.nRec = pager.nRec
        /\ w.journalOff = pager.journalOff /\ w.journalHdr = pager.journalHdr /\ w.header = pager.header
        /\ w.nonce = pager.nonce /\ w.pInJournal = pager.pInJournal /\ w.sub = pager.sub /\ w.aSavepoint = pager.aSavepoint
    BY <1>3 DEF Fields
  <2> HIDE DEF w
  <2>6. Basics'
    BY <1>1, <1>2, <1>3, <1>11, <2>1, <2>2, <2>3, <2>5, BasicsRight
  <2>7. Flow' /\ ReaderRight' /\ LockedRight'
    BY <1>4, <2>2, <2>3, <2>5 DEF Flow, ReaderRight, LockedRight
  <2>8. OwnRecords' => OwnRecords
    BY <1>1, <1>3, <1>11, CarriedOwn
  <2>9. CASE pc.task = "recover"
    <3>1. /\ pager.pInJournal = {} /\ pager.sub = <<>> /\ pager.header = 0 /\ pager.aSavepoint = <<>>
          /\ pager.jfd = TRUE /\ DOMAIN pager.cache = {} /\ pager.eState = "OPEN"
      BY <1>4, <2>9 DEF WholeInv, OpenRight
    <3>2. DOMAIN k = {}
      <4>1. DOMAIN <<>> = {} /\ DOMAIN Restored(pager.cache, Pages(all), {}) = {}
        BY <3>1 DEF Restored
      <4>2. QED
        BY <2>4, <4>1
    <3>3. OpenRight'
      BY <2>2, <2>3, <2>5, <2>9, <3>1, <3>2 DEF OpenRight
    <3>4. WriterRight'
      BY <2>2, <2>5, <3>1 DEF WriterRight, Opened3
    <3>5. QED
      BY <2>6, <2>7, <3>3, <3>4 DEF WholeInv
  <2>10. CASE pc.task = "rollback"
    <3>1. /\ pager.eState \in {"CACHEMOD", "DBMOD"}
          /\ Layout(pager, J) /\ RecordsRight(pager, J) /\ SyncedRight(pager, J, jrnl.safe)
          /\ CacheRight(pager, J, f) /\ (OwnRecords => ContentRight(pager, J, f)) /\ Stage
          /\ orig = pager.dbOrigSize /\ LastOf(pager) > 0 /\ LastOf(pager) \in Nat
      BY <1>4, <1>5, <1>6, <2>10
    <3>2. OpenRight'
      BY <2>2, <2>5, <3>1 DEF OpenRight
    <3>3. /\ LastOf(w) = LastOf(pager) /\ Records(w, J) = Records(pager, J)
          /\ (InProgressRight(pager, J) => InProgressRight(w, J))
      BY <2>5 DEF LastOf, Records, InProgressRight
    <3>4. Layout(w, J)
      BY <2>5, <3>1, <3>3 DEF Layout
    <3>5. RecordsRight(w, J) /\ SyncedRight(w, J, jrnl.safe)
      BY <2>5, <3>1, <3>3 DEF RecordsRight, SyncedRight
    <3>6. k = Restored(pager.cache, Pages(all), {})
      BY <2>4, <2>10
    <3>7. /\ DOMAIN k = DOMAIN pager.cache
          /\ \A p \in DOMAIN pager.cache : k[p].dirty = pager.cache[p].dirty /\ k[p].sync = pager.cache[p].sync
          /\ \A p \in DOMAIN pager.cache : (\A b \in DOMAIN all : all[b].pgno # p) => k[p] = pager.cache[p]
          /\ OncePerPage(all) => \A b \in DOMAIN all : all[b].pgno \in DOMAIN k => k[all[b].pgno].data = all[b].data
      <4>1. CacheType(pager.cache) /\ orig \in Nat /\ orig <= MaxPages /\ MaxPages \in Nat
        BY <1>3, <1>6 DEF PagerType, Sizes
      <4>2. Loads({}, all, pager.cache) /\ Changed(all, orig)
        BY <1>8 DEF Loads
      <4> HIDE DEF orig
      <4>3. RestoredFrom(pager.cache, all, {}, k)
        BY <3>6, <4>1, <4>2, RestoredChanges
      <4>4. QED
        BY <4>3 DEF RestoredFrom
    <3>8. /\ orig <= Len(f) /\ Len(f) \in Nat /\ orig \in 0 .. MaxPages /\ Len(s) = orig /\ d = orig
          /\ pager.journalHdr \in Nat
      <4>1. /\ pager.dbFileSize = Len(f) /\ pager.dbOrigSize <= Len(f)
            /\ pager.eState = "CACHEMOD" => Len(f) = pager.dbOrigSize
        BY <3>1 DEF CacheRight
      <4>2. Len(f) \in Nat /\ pager.journalHdr \in Nat
        BY <1>2, <1>3 DEF DataFile, Numbered, PagerType
      <4>3. QED
        BY <1>6, <2>1, <2>4, <3>1, <4>1, <4>2
    <3>9. CacheRight(w, J, s)
      <4>1. w.pInJournal \subseteq DOMAIN w.cache
        BY <2>5, <3>1, <3>7 DEF CacheRight
      <4>2. w.dbOrigSize <= w.dbSize /\ (\A p \in w.dbOrigSize + 1 .. w.dbSize : p \in DOMAIN w.cache)
        BY <2>5, <3>1, <3>8
      <4>3. w.dbFileSize = Len(s) /\ w.dbOrigSize <= Len(s)
        BY <2>5, <3>1, <3>8
      <4>4. w.eState = "CACHEMOD" =>
               /\ Len(s) = w.dbOrigSize
               /\ \A p \in DOMAIN w.cache : p \in w.pInJournal \/ p > w.dbOrigSize => w.cache[p].dirty
        BY <2>5, <3>1, <3>7, <3>8 DEF CacheRight
      <4>5. \A b \in Records(w, J) : b > w.journalHdr => w.cache[J[b].pgno].sync
        BY <2>5, <3>1, <3>3, <3>7 DEF CacheRight, RecordsRight
      <4>6. \A p \in DOMAIN w.cache : ~w.cache[p].dirty /\ p <= w.dbSize => p <= Len(s)
        BY <2>5, <3>8
      <4>7. QED
        BY <4>1, <4>2, <4>3, <4>4, <4>5, <4>6 DEF CacheRight
    <3>10. ASSUME OwnRecords
           PROVE  /\ \A p \in 1 .. orig : (\A b \in low(all) : all[b].pgno # p) => s[p] = f[p]
                  /\ OncePerPage(all) => \A b \in low(all) : inFile => s[all[b].pgno] = all[b].data
      <4>1. CASE inFile
        <5> DEFINE z == Sized(f, orig)
                   S == low(all)
        <5>1. DataFile(z) /\ Len(z) = orig /\ \A p \in 1 .. orig : z[p] = f[p]
          <6>1. DataFile(z)
            BY <1>2, <1>3, <1>6, SizedFile
          <6>2. Len(z) = orig /\ \A p \in 1 .. orig : z[p] = IF p <= Len(f) THEN f[p] ELSE Zero
            BY <1>2, <1>6, SizedFacts DEF DataFile
          <6>3. \A p \in 1 .. orig : p <= Len(f)
            BY <3>8
          <6>4. QED
            BY <6>1, <6>2, <6>3
        <5>2. S \subseteq DOMAIN all /\ s = Stored(z, Latest(all, S))
          BY <2>4, <4>1
        <5>3. orig \in Nat /\ orig <= Len(z)
          BY <3>8, <5>1
        <5> HIDE DEF z, S, orig
        <5>4. /\ \A p \in 1 .. Len(z) : (\A b \in S : all[b].pgno # p) => s[p] = z[p]
              /\ OncePerPage(all) => \A b \in S : s[all[b].pgno] = all[b].data
          BY <1>3, <1>8, <5>1, <5>2, <5>3, StoredChanges
        <5>5. QED
          BY <5>1, <5>4 DEF S, orig
      <4>2. CASE ~inFile
        BY <2>4, <4>2
      <4>3. QED
        BY <4>1, <4>2
    <3>11. ASSUME OwnRecords, NEW p \in DOMAIN k, p <= orig PROVE k[p].data = s[p]
      <4>1. blocks = Records(pager, J)
        <5>1. HeaderRight(pager, J) /\ (pager.header = 0 => ~setting.aligned)
          <6>1. pc.at = "playback"
            BY <1>1
          <6>2. HeaderRight(pager, J)
            BY <2>10, <3>1, <6>1 DEF Stage, HeaderRight
          <6>3. pager.header = 0 => faults > 0
            BY <2>10, <3>1, <6>1 DEF Stage
          <6>4. faults > 0 => ~setting.aligned
            BY <1>3, <3>11 DEF OwnRecords
          <6>5. QED
            BY <6>2, <6>3, <6>4
        <5>2. hot = FALSE
          BY <2>10
        <5>3. Blocks(J, 1, Len(J), InProgress(pager), FALSE) = RecordsIn(J, 1, LastOf(pager))
          <6>1. /\ 1 \in 1 .. pager.journalHdr + 1 /\ 1 <= Len(J) /\ Len(J) \in Nat /\ LastOf(pager) <= Len(J) /\ Len(J) <= Len(J)
            BY <1>6, <3>1, <3>8 DEF Layout
          <6> DEFINE one == 1
                     limit == Len(J)
          <6>2. /\ one \in 1 .. pager.journalHdr + 1 /\ one <= limit /\ limit \in Nat /\ LastOf(pager) <= limit /\ limit <= Len(J)
                /\ J[one].kind = "hdr"
            BY <1>6, <6>1
          <6> HIDE DEF one, limit
          <6>3. Blocks(J, one, limit, InProgress(pager), FALSE) = RecordsIn(J, one, LastOf(pager))
            BY <1>2, <1>3, <3>1, <5>1, <6>2, OwnBlocks
          <6>4. QED
            BY <6>3 DEF one, limit
        <5>4. QED
          BY <5>2, <5>3 DEF blocks, Records
      <4>2. ContentRight(pager, J, f)
        BY <3>1, <3>11
      <4>3. p \in 1 .. orig
        BY <1>3, <3>7, <3>8, <3>11 DEF PagerType, CacheType
      <4>4. DOMAIN all = Records(pager, J)
        <5>1. ASSUME NEW b \in Records(pager, J) PROVE J[b].pgno <= orig
          <6>1. J[b].pgno \in 1 .. pager.dbOrigSize
            BY <1>3, <3>1 DEF RecordsRight, PagerType
          <6>2. QED
            BY <3>1, <3>8, <6>1
        <5>2. QED
          BY <1>8, <4>1, <5>1
      <4>5. OncePerPage(all)
        BY <1>8, <3>1, <4>4 DEF OncePerPage, RecordsRight
      <4>6. CASE p \in pager.pInJournal
        <5>1. PICK b \in Records(pager, J) : J[b].pgno = p
          BY <3>1, <4>6 DEF RecordsRight
        <5>2. b \in DOMAIN all /\ all[b].pgno = p /\ all[b].data = J[b].data /\ b \in Nat
          BY <1>8, <4>4, <5>1 DEF Records, RecordsIn
        <5>3. k[p].data = J[b].data
          BY <3>7, <3>11, <4>5, <5>2
        <5>4. CASE b <= pager.journalHdr
          <6>1. inFile
            <7>1. pager.journalHdr # 0
              BY <3>8, <5>1, <5>4 DEF Records, RecordsIn
            <7>2. QED
              BY <3>1, <7>1 DEF Layout
          <6>2. b \in low(all)
            BY <5>2, <5>4
          <6>3. QED
            BY <3>10, <3>11, <4>5, <5>2, <5>3, <6>1, <6>2
        <5>5. CASE b > pager.journalHdr
          <6>1. J[b].data = f[p]
            BY <4>2, <5>1, <5>5 DEF ContentRight
          <6>2. \A a \in low(all) : all[a].pgno # p
            <7>1. \A a \in low(all) : a # b /\ a \in DOMAIN all
              BY <3>8, <5>2, <5>5
            <7>2. QED
              BY <4>5, <5>2, <7>1 DEF OncePerPage
          <6>3. QED
            BY <3>10, <3>11, <4>3, <5>3, <6>1, <6>2
        <5>6. QED
          BY <3>8, <5>2, <5>4, <5>5
      <4>7. CASE p \notin pager.pInJournal
        <5>1. \A b \in DOMAIN all : all[b].pgno # p
          BY <1>8, <3>1, <4>4, <4>7 DEF RecordsRight
        <5>2. k[p].data = pager.cache[p].data /\ pager.cache[p].data = f[p]
          BY <3>1, <3>7, <3>11, <4>2, <4>7, <5>1 DEF ContentRight
        <5>3. s[p] = f[p]
          BY <3>10, <3>11, <4>3, <5>1
        <5>4. QED
          BY <5>2, <5>3
      <4>8. QED
        BY <4>6, <4>7
    <3>12. ASSUME OwnRecords PROVE ContentRight(w, J, s)
      <4>1. \A p \in DOMAIN k : p <= orig => k[p].data = s[p]
        BY <3>11, <3>12
      <4>2. ASSUME NEW b \in Records(pager, J), b > pager.journalHdr PROVE J[b].data = s[J[b].pgno]
        <5>1. J[b].pgno \in pager.pInJournal /\ J[b].pgno \in 1 .. orig /\ J[b].data = f[J[b].pgno]
          BY <1>3, <3>1, <3>12, <4>2 DEF RecordsRight, PagerType, ContentRight
        <5>2. \A a \in low(all) : all[a].pgno # J[b].pgno
          <6>1. ASSUME NEW a \in low(all), all[a].pgno = J[b].pgno PROVE FALSE
            <7>1. a \in DOMAIN all /\ a <= pager.journalHdr /\ a \in blocks /\ J[a].pgno = J[b].pgno
              BY <1>8, <6>1
            <7>2. a \in 1 .. Len(J) /\ J[a].kind = "rec"
              BY <1>7, <7>1
            <7>3. a <= LastOf(pager) /\ b \in Nat
              BY <1>6, <3>1, <3>8, <4>2, <7>1, <7>2 DEF LastOf, Layout, Records, RecordsIn, PagerType
            <7>4. a \in Records(pager, J)
              BY <1>6, <3>1, <7>2, <7>3 DEF Records, RecordsIn
            <7>5. a = b
              BY <3>1, <7>1, <7>4 DEF RecordsRight
            <7>6. QED
              BY <3>8, <4>2, <7>1, <7>3, <7>5
          <6>2. QED
            BY <6>1
        <5>3. QED
          BY <3>10, <3>12, <5>1, <5>2
      <4>3. QED
        BY <2>5, <3>1, <3>3, <4>1, <4>2 DEF ContentRight
    <3>13. \A p \in DOMAIN w.cache : p <= w.dbSize => p <= Len(s) /\ (OwnRecords => w.cache[p].data = s[p])
      BY <2>5, <3>8, <3>11
    <3>14. Stage'
      <4>1. pc.at = "playback" /\ jrnl' = jrnl /\ faults' = faults
        BY <1>1, <1>11
      <4>2. pager.header # 0 =>
                \/ ~J[pager.journalHdr + 1].magic /\ J[pager.journalHdr + 1].n = 0
                \/ J[pager.journalHdr + 1].magic /\ J[pager.journalHdr + 1].n = pager.nRec /\ ~MagicAt(J, LastOf(pager) + 1)
        BY <3>1, <4>1 DEF Stage
      <4>3. pager.header = 0 => faults > 0
        BY <2>10, <3>1, <4>1 DEF Stage
      <4>4. pc'.task = "rollback" /\ pc'.at \in {"syncDb", "finalize"}
        BY <2>3, <2>10
      <4>5. w.dbSize = w.dbOrigSize /\ Len(s) = w.dbSize
        BY <2>5, <3>1, <3>8
      <4>6. QED
        BY <2>2, <2>5, <2>8, <3>3, <3>13, <4>1, <4>2, <4>3, <4>4, <4>5 DEF Stage
    <3>15. WriterRight'
      BY <1>1, <2>2, <2>3, <2>5, <2>8, <2>10, <3>4, <3>5, <3>9, <3>12, <3>14 DEF WriterRight
    <3>16. QED
      BY <2>6, <2>7, <3>2, <3>15 DEF WholeInv
  <2>11. QED
    BY <1>4, <2>9, <2>10
<1>12. QED
  BY <1>1, <1>10, <1>11

(***************************************************************************)
(* The end of a transaction, and power failures.                           *)
(***************************************************************************)
LEMMA CleanFacts ==
    ASSUME NEW c, CacheType(c), NEW size
    PROVE  LET k == Clean(c, size)
           IN  /\ CacheType(k) /\ (\A p : p \in DOMAIN k <=> p \in DOMAIN c /\ p <= size)
               /\ \A p \in DOMAIN k : k[p].data = c[p].data
<1> DEFINE k == Clean(c, size)
<1>1. /\ \A p : p \in DOMAIN k <=> p \in DOMAIN c /\ p <= size
      /\ \A p \in DOMAIN k : k[p] = [c[p] EXCEPT !.dirty = FALSE, !.sync = FALSE]
  BY DEF Clean
<1> HIDE DEF k
<1>2. ASSUME NEW p \in DOMAIN k
      PROVE  /\ k[p] \in [data : Page, dirty : BOOLEAN, sync : BOOLEAN] /\ k[p].data = c[p].data
             /\ (k[p].sync => k[p].dirty)
  <2> DEFINE x == c[p]
             y == [x EXCEPT !.dirty = FALSE, !.sync = FALSE]
  <2>1. x \in [data : Page, dirty : BOOLEAN, sync : BOOLEAN]
    BY <1>1 DEF CacheType
  <2>2. k[p] = y
    BY <1>1
  <2> HIDE DEF x
  <2>3. y \in [data : Page, dirty : BOOLEAN, sync : BOOLEAN]
    BY <2>1
  <2>4. y.data = x.data
    BY <2>1
  <2>5. y.sync = FALSE
    BY <2>1
  <2>6. QED
    BY <2>2, <2>3, <2>4, <2>5 DEF x
<1>3. CacheType(k)
  BY <1>1, <1>2 DEF CacheType
<1>4. QED
  BY <1>1, <1>2, <1>3 DEF k

\* A journal whose header is zeroed is not hot.
LEMMA ZeroedFacts ==
    ASSUME Sizes, NEW J, NEW v, JournalFile(J, v)
    PROVE  JournalFile(Put(J, 1, ZeroHeader), v) /\ ~MagicAt(Put(J, 1, ZeroHeader), 1)
<1> DEFINE i == 1
           K == Put(J, i, ZeroHeader)
<1>1. Numbered(J) /\ Len(J) \in Nat /\ \A k \in 1 .. Len(J) : IsBlock(J[k], v)
  BY DEF JournalFile, Numbered
<1>2. i \in Nat /\ i > 0 /\ i <= Len(J) + 1
  BY <1>1
<1>3. /\ ZeroHeader.kind = "hdr" /\ "magic" \in DOMAIN ZeroHeader /\ ZeroHeader.magic = FALSE /\ ZeroHeader.n = 0
      /\ ZeroHeader.nonce = 0 /\ ZeroHeader.orig = 0
  BY DEF ZeroHeader, Header
<1>4. IsBlock(ZeroHeader, v)
  <2>1. ZeroHeader.magic \in BOOLEAN
    BY <1>3
  <2>2. ZeroHeader.n \in Nat /\ ZeroHeader.nonce \in Nat
    BY <1>3
  <2>3. ZeroHeader.orig \in 0 .. MaxPages
    BY <1>3 DEF Sizes
  <2>4. QED
    BY <1>3, <2>1, <2>2, <2>3 DEF IsBlock
<1>5. /\ Numbered(K) /\ Len(K) = (IF i > Len(J) THEN i ELSE Len(J))
      /\ K[i] = ZeroHeader /\ \A k \in 1 .. Len(J) : k # i => K[k] = J[k]
  <2> HIDE DEF i
  <2>1. QED
    BY <1>1, <1>2, PutBlock
<1>6. \A k \in 1 .. Len(K) : k = i \/ k \in 1 .. Len(J)
  <2>1. Len(K) = 1 \/ Len(K) = Len(J)
    BY <1>5
  <2> HIDE DEF K
  <2>2. CASE Len(K) = 1
    BY <2>2
  <2>3. CASE Len(K) = Len(J)
    BY <2>3
  <2>4. QED
    BY <2>1, <2>2, <2>3
<1>7. \A k \in 1 .. Len(K) : IsBlock(K[k], v)
  BY <1>1, <1>4, <1>5, <1>6
<1>8. JournalFile(K, v)
  BY <1>5, <1>7 DEF JournalFile
<1>9. ~MagicAt(K, i)
  BY <1>3, <1>5 DEF MagicAt
<1>10. QED
  BY <1>8, <1>9

\* When a transaction ends, its journal is no longer valid.
LEMMA RemovedFacts ==
    ASSUME WholeInv, Removed,
           \/ pager.jfd = TRUE /\ (pager.journalOff # 0 \/ pc.task = "recover")
           \/ ~MagicAt(jrnl.vis, 1)
    PROVE  /\ JournalFile(jrnl'.vis, ver) /\ JournalFile(jrnl'.safe, ver)
           /\ JournalFile(gone'.vis, ver) /\ JournalFile(gone'.safe, ver)
           /\ ~MagicAt(jrnl'.vis, 1)
<1>1. /\ JournalFile(jrnl.vis, ver) /\ JournalFile(jrnl.safe, ver) /\ JournalFile(gone.vis, ver) /\ JournalFile(gone.safe, ver)
  BY DEF WholeInv, Basics
<1>2. Sizes
  BY Bounds
<1>3. JournalFile(NoFile.vis, ver) /\ JournalFile(NoFile.safe, ver) /\ ~MagicAt(NoFile.vis, 1)
  <2>1. NoFile.vis = <<>> /\ NoFile.safe = <<>> /\ Len(<<>>) = 0
    BY DEF NoFile
  <2>2. QED
    BY <2>1, EmptyJournal DEF MagicAt
<1> DEFINE K == Put(jrnl.vis, 1, ZeroHeader)
<1>4. JournalFile(K, ver) /\ ~MagicAt(K, 1)
  BY <1>1, <1>2, ZeroedFacts
<1> HIDE DEF K
<1>5. CASE jrnl' = jrnl /\ gone' = gone /\ (~pager.jfd \/ (pager.journalOff = 0 /\ pc.task # "recover"))
  BY <1>1, <1>5
<1>6. CASE jrnl' = Synced(Seen(jrnl, K)) /\ gone' = gone
  <2>1. jrnl'.vis = K /\ jrnl'.safe = K
    BY <1>6 DEF Synced, Seen
  <2>2. QED
    BY <1>1, <1>4, <1>6, <2>1
<1>7. CASE jrnl' = NoFile /\ (gone' = gone \/ gone' = jrnl)
  BY <1>1, <1>3, <1>7
<1>8. \/ jrnl' = jrnl /\ gone' = gone /\ (~pager.jfd \/ (pager.journalOff = 0 /\ pc.task # "recover"))
      \/ jrnl' = Synced(Seen(jrnl, K)) /\ gone' = gone
      \/ jrnl' = NoFile /\ (gone' = gone \/ gone' = jrnl)
  BY DEF Removed, K
<1>9. QED
  BY <1>5, <1>6, <1>7, <1>8

\* What is left when the removal of the journal fails.
LEMMA HalfRemovedFacts ==
    ASSUME WholeInv, HalfRemoved
    PROVE  /\ JournalFile(jrnl'.vis, ver) /\ JournalFile(jrnl'.safe, ver)
           /\ JournalFile(gone'.vis, ver) /\ JournalFile(gone'.safe, ver)
<1>1. /\ JournalFile(jrnl.vis, ver) /\ JournalFile(jrnl.safe, ver) /\ JournalFile(gone.vis, ver) /\ JournalFile(gone.safe, ver)
  BY DEF WholeInv, Basics
<1>2. Sizes
  BY Bounds
<1>3. JournalFile(NoFile.vis, ver) /\ JournalFile(NoFile.safe, ver)
  BY EmptyJournal DEF NoFile
<1> DEFINE K == Put(jrnl.vis, 1, ZeroHeader)
<1>4. JournalFile(K, ver)
  BY <1>1, <1>2, ZeroedFacts
<1> HIDE DEF K
<1>5. CASE jrnl' = Seen(jrnl, K) /\ gone' = gone
  <2>1. jrnl'.vis = K /\ jrnl'.safe = jrnl.safe
    BY <1>5 DEF Seen
  <2>2. QED
    BY <1>1, <1>4, <1>5, <2>1
<1>6. \/ jrnl' = jrnl /\ gone' = gone
      \/ jrnl' = Seen(jrnl, K) /\ gone' = gone
      \/ jrnl' = NoFile /\ gone' = jrnl
  BY DEF HalfRemoved, K
<1>7. QED
  BY <1>1, <1>3, <1>5, <1>6

\* What pager_end_transaction leaves of the pager.
LEMMA EndedFacts ==
    ASSUME Sizes, NEW g, PagerType(g), DataFile(db.vis)
    PROVE  LET w == Ended(g)
           IN  /\ PagerType(w) /\ w.eState = "READER" /\ w.pInJournal = {} /\ w.header = 0 /\ w.sub = <<>> /\ w.aSavepoint = <<>>
               /\ w.cache = Clean(g.cache, g.dbSize) /\ w.nonce = g.nonce /\ w.dbFileSize = g.dbFileSize
               /\ w.dbSize = IF pc.task = "recover" THEN Len(db.vis) ELSE g.dbSize
<1> DEFINE a == (g.jfd /\ JournalMode # "DELETE")
           c == Clean(g.cache, g.dbSize)
           o == IF JournalMode = "DELETE" THEN g.journalOff ELSE 0
           n == IF pc.task = "recover" THEN Len(db.vis) ELSE g.dbSize
           w == [g EXCEPT !.eState = "READER", !.jfd = a, !.pInJournal = {}, !.nRec = 0, !.header = 0,
                          !.aSavepoint = <<>>, !.sub = <<>>, !.cache = c, !.journalOff = o, !.dbSize = n]
<1>1. Ended(g) = w
  BY DEF Ended
<1>2. DOMAIN g = Fields /\ CacheType(g.cache) /\ g.journalOff \in Nat /\ g.dbSize \in 0 .. MaxPages
  BY DEF PagerType
<1>3. CacheType(c) /\ o \in Nat /\ n \in 0 .. MaxPages
  <2>1. Len(db.vis) \in 0 .. MaxPages
    BY DEF DataFile, Numbered, Sizes
  <2>2. CacheType(c)
    BY <1>2, CleanFacts
  <2>3. QED
    BY <1>2, <2>1, <2>2
<1>4. a \in BOOLEAN
  OBVIOUS
<1> HIDE DEF a, c, o, n
<1>5. /\ DOMAIN w = Fields /\ w.eState = "READER" /\ w.jfd = a /\ w.pInJournal = {} /\ w.nRec = 0 /\ w.header = 0
      /\ w.aSavepoint = <<>> /\ w.sub = <<>> /\ w.cache = c /\ w.journalOff = o /\ w.dbSize = n
      /\ w.dbOrigSize = g.dbOrigSize /\ w.dbFileSize = g.dbFileSize /\ w.journalHdr = g.journalHdr /\ w.nonce = g.nonce
  BY <1>2 DEF Fields
<1> HIDE DEF w
<1>6. PagerType(w)
  <2>1. w.jfd \in BOOLEAN
    BY <1>4, <1>5
  <2>2. w.sub \in Seq(Entry) /\ w.aSavepoint \in Seq(Save) /\ Len(w.aSavepoint) = 0
    BY <1>5
  <2>3. QED
    BY <1>3, <1>5, <2>1, <2>2 DEF PagerType
<1>7. QED
  BY <1>1, <1>5, <1>6 DEF c, n

\* pager_end_transaction keeps the invariant.
LEMMA FinalizeRight ==
    ASSUME WholeInv, Finalize
    PROVE  WholeInv'
<1> DEFINE f == db.vis
           w == Ended(pager)
<1>1. /\ pc.at = "finalize" /\ db' = db /\ ver' = ver /\ setting' = setting
      /\ \/ /\ Removed /\ pager' = w /\ faults' = faults
            /\ pc' = IF pc.task = "commit" /\ pager.dbFileSize > pager.dbSize THEN At("shrink", "end") ELSE Idle
         \/ /\ HalfRemoved /\ MayFail /\ pc' = Idle
            /\ pager' = IF pc.task = "recover" THEN Unlocked(Error(pager)) ELSE Error(pager)
  BY DEF Finalize
<1>2. /\ JournalFile(jrnl.vis, ver) /\ pager.nonce <= ver /\ DataFile(f) /\ DataFile(db.safe) /\ setting \in Settings
  BY DEF WholeInv, Basics
<1>3. Sizes /\ ver \in Nat /\ ver <= MaxVersion /\ faults \in Nat /\ DOMAIN pager = Fields /\ PagerType(pager)
  BY Bounds
<1>4. pc.at = "finalize"
  BY <1>1
<1>5. \/ pc.task = "commit" /\ pager.eState = "FINISHED"
      \/ pc.task \in {"commit", "rollback"} /\ pager.eState = "LOCKED"
      \/ pc.task = "rollback" /\ pager.eState \in {"CACHEMOD", "DBMOD"}
      \/ pc.task = "recover" /\ pager.eState = "OPEN"
  BY <1>4 DEF WholeInv, Flow, Idle
<1>6. DOMAIN Idle = {"at", "task", "page"} /\ Idle.at = "idle" /\ Idle.task = "none"
      /\ DOMAIN At("shrink", "end") = {"at", "task", "page"} /\ At("shrink", "end").at = "shrink" /\ At("shrink", "end").task = "end"
  BY DEF Idle, At
<1>7. pager.eState \in Opened3 =>
          /\ Layout(pager, jrnl.vis) /\ CacheRight(pager, jrnl.vis, f) /\ Stage
  BY DEF WholeInv, WriterRight
<1>8. CASE /\ HalfRemoved /\ MayFail /\ pc' = Idle
           /\ pager' = IF pc.task = "recover" THEN Unlocked(Error(pager)) ELSE Error(pager)
  <2>1. faults' = faults + 1 /\ faults' \in Nat
    BY <1>3, <1>8 DEF MayFail
  <2>2. PagerType(Error(pager)) /\ Error(pager).eState = "ERROR" /\ Error(pager).nonce = pager.nonce
    BY <1>3, ErrorFacts
  <2>3. /\ JournalFile(jrnl'.vis, ver) /\ JournalFile(jrnl'.safe, ver)
        /\ JournalFile(gone'.vis, ver) /\ JournalFile(gone'.safe, ver)
    BY <1>8, HalfRemovedFacts
  <2>4. CASE pc.task # "recover"
    <3>1. Basics'
      BY <1>1, <1>2, <1>3, <1>6, <1>8, <2>1, <2>2, <2>3, <2>4, BasicsRight
    <3>2. QED
      BY <1>8, <2>2, <2>4, <3>1, ErrorRight
  <2>5. CASE pc.task = "recover"
    <3>1. pager' = Unlocked(Error(pager))
      BY <1>8, <2>5
    <3>2. /\ PagerType(pager') /\ pager'.eState = "OPEN" /\ pager'.nonce = 0 /\ pager'.pInJournal = {} /\ pager'.sub = <<>>
          /\ pager'.header = 0 /\ pager'.aSavepoint = <<>> /\ pager'.cache = <<>>
      BY <1>3, <2>2, <3>1, UnlockedFacts
    <3>3. Basics'
      BY <1>1, <1>2, <1>3, <1>6, <1>8, <2>1, <2>3, <3>2, BasicsRight
    <3>4. Flow' /\ ReaderRight' /\ LockedRight' /\ WriterRight'
      BY <1>8, <3>2 DEF Flow, ReaderRight, LockedRight, WriterRight, Opened3
    <3>5. OpenRight'
      BY <1>6, <1>8, <3>2 DEF OpenRight, Reliable
    <3>6. QED
      BY <3>3, <3>4, <3>5 DEF WholeInv
  <2>6. QED
    BY <2>4, <2>5
<1>9. CASE /\ Removed /\ pager' = w /\ faults' = faults
           /\ pc' = IF pc.task = "commit" /\ pager.dbFileSize > pager.dbSize THEN At("shrink", "end") ELSE Idle
  <2>1. /\ PagerType(w) /\ w.eState = "READER" /\ w.pInJournal = {} /\ w.header = 0 /\ w.sub = <<>> /\ w.aSavepoint = <<>>
        /\ w.cache = Clean(pager.cache, pager.dbSize) /\ w.nonce = pager.nonce
        /\ w.dbSize = IF pc.task = "recover" THEN Len(f) ELSE pager.dbSize
    BY <1>2, <1>3, EndedFacts
  <2> HIDE DEF w
  <2>2. \/ pager.jfd = TRUE /\ (pager.journalOff # 0 \/ pc.task = "recover")
        \/ ~MagicAt(jrnl.vis, 1)
    <3>1. CASE pager.eState \in Opened3
      <4>1. pager.jfd = TRUE /\ pager.journalOff > 0 /\ pager.journalOff \in Nat
        BY <1>3, <1>7, <3>1 DEF Layout, PagerType
      <4>2. QED
        BY <4>1
    <3>2. CASE pager.eState = "LOCKED"
      BY <3>2 DEF WholeInv, LockedRight, Begun
    <3>3. CASE pc.task = "recover" /\ pager.eState = "OPEN"
      BY <3>3 DEF WholeInv, OpenRight
    <3>4. QED
      BY <1>5, <3>1, <3>2, <3>3 DEF Opened3
  <2>3. /\ JournalFile(jrnl'.vis, ver) /\ JournalFile(jrnl'.safe, ver)
        /\ JournalFile(gone'.vis, ver) /\ JournalFile(gone'.safe, ver) /\ ~MagicAt(jrnl'.vis, 1)
    BY <1>9, <2>2, RemovedFacts
  <2>4. DOMAIN pc' = {"at", "task", "page"} /\ (pc' = Idle \/ (pc'.at = "shrink" /\ pc'.task = "end"))
    BY <1>6, <1>9
  <2>5. Basics'
    BY <1>1, <1>2, <1>3, <1>9, <2>1, <2>3, <2>4, BasicsRight
  <2>6. Flow' /\ OpenRight' /\ LockedRight' /\ WriterRight'
    BY <1>9, <2>1, <2>4 DEF Flow, OpenRight, LockedRight, WriterRight, Opened3
  <2>7. OwnRecords' => OwnRecords
    BY <1>1, <1>3, <1>9, CarriedOwn
  <2>8. /\ CacheType(pager.cache) /\ DOMAIN pager.cache \subseteq Nat \ {0} /\ Len(f) \in Nat /\ pager.dbSize \in Nat
        /\ pager.dbOrigSize \in Nat /\ pager.dbFileSize \in Nat
    BY <1>2, <1>3 DEF PagerType, CacheType, DataFile, Numbered
  <2>9. /\ \A p : p \in DOMAIN w.cache <=> p \in DOMAIN pager.cache /\ p <= pager.dbSize
        /\ \A p \in DOMAIN w.cache : w.cache[p].data = pager.cache[p].data
    BY <2>1, <2>8, CleanFacts
  <2>10. \/ pc.task = "recover" /\ DOMAIN pager.cache = {}
         \/ /\ pc.task # "recover" /\ pager.dbSize <= Len(f)
            /\ pc' = Idle => pager.dbSize = Len(f)
            /\ \A p \in DOMAIN pager.cache : p <= pager.dbSize => p <= Len(f) /\ (OwnRecords => pager.cache[p].data = f[p])
    <3>1. CASE pc.task = "recover" /\ pager.eState = "OPEN"
      BY <3>1 DEF WholeInv, OpenRight
    <3>2. CASE pc.task \in {"commit", "rollback"} /\ pager.eState = "LOCKED"
      <4>1. Begun(pager, jrnl.vis, f)
        BY <3>2 DEF WholeInv, LockedRight
      <4>2. QED
        BY <2>8, <3>2, <4>1 DEF Begun, Reliable
    <3>3. CASE pc.task = "rollback" /\ pager.eState \in {"CACHEMOD", "DBMOD"}
      <4>1. Stage
        BY <1>7, <3>3 DEF Opened3
      <4>2. /\ pager.dbSize = pager.dbOrigSize /\ Len(f) = pager.dbSize
            /\ \A p \in DOMAIN pager.cache : p <= pager.dbSize => p <= Len(f) /\ (OwnRecords => pager.cache[p].data = f[p])
        BY <1>4, <3>3, <4>1 DEF Stage
      <4>3. QED
        BY <2>8, <3>3, <4>2
    <3>4. CASE pc.task = "commit" /\ pager.eState = "FINISHED"
      <4>1. Stage /\ CacheRight(pager, jrnl.vis, f)
        BY <1>7, <3>4 DEF Opened3
      <4>2. \A p \in DOMAIN pager.cache : p <= pager.dbSize => p <= Len(f) /\ (OwnRecords => pager.cache[p].data = f[p])
        BY <1>4, <3>4, <4>1 DEF Stage
      <4>3. /\ pager.dbOrigSize <= pager.dbSize /\ pager.dbFileSize = Len(f) /\ pager.dbOrigSize <= Len(f)
            /\ \A p \in pager.dbOrigSize + 1 .. pager.dbSize : p \in DOMAIN pager.cache
        BY <4>1 DEF CacheRight
      <4>4. pager.dbSize <= Len(f)
        <5>1. pager.dbSize = pager.dbOrigSize \/ pager.dbSize \in pager.dbOrigSize + 1 .. pager.dbSize
          BY <2>8, <4>3
        <5>2. QED
          BY <2>8, <4>2, <4>3, <5>1
      <4>5. pc' = Idle => ~(pager.dbFileSize > pager.dbSize)
        BY <1>6, <1>9, <3>4
      <4>6. QED
        BY <2>8, <3>4, <4>2, <4>3, <4>4, <4>5
    <3>5. QED
      BY <1>5, <3>1, <3>2, <3>3, <3>4
  <2>11. DOMAIN w.cache \subseteq 1 .. w.dbSize
    <3>1. \A p \in DOMAIN w.cache : pc.task # "recover" /\ p \in Nat \ {0} /\ p <= pager.dbSize
      BY <2>8, <2>9, <2>10
    <3>2. QED
      BY <2>1, <2>8, <3>1
  <2>12. \A p \in DOMAIN w.cache : p <= Len(f) /\ (OwnRecords => w.cache[p].data = f[p])
    BY <2>9, <2>10
  <2>13. w.dbSize <= Len(f) /\ (pc' = Idle => w.dbSize = Len(f))
    BY <2>1, <2>8, <2>10
  <2>14. ReaderRight'
    BY <1>1, <1>9, <2>1, <2>3, <2>7, <2>11, <2>12, <2>13 DEF ReaderRight, Reliable
  <2>15. QED
    BY <2>5, <2>6, <2>14 DEF WholeInv
<1>10. QED
  BY <1>1, <1>8, <1>9

(***************************************************************************)
(* Power failures.                                                         *)
(***************************************************************************)
LEMMA SurvivorFacts ==
    ASSUME NEW f, Numbered(f.vis), Numbered(f.safe), NEW torn, NEW g \in Survivors(f, torn)
    PROVE  /\ Numbered(g) /\ Len(g) \in {Len(f.safe), Len(f.vis)}
           /\ \A p \in 1 .. Len(g) : p <= Len(f.safe) /\ p <= Len(f.vis) /\ f.safe[p] = f.vis[p] => g[p] = f.vis[p]
           /\ \A p \in 1 .. Len(g) : \/ g[p] = torn
                                     \/ p \in 1 .. Len(f.safe) /\ g[p] = f.safe[p]
                                     \/ p \in 1 .. Len(f.vis) /\ g[p] = f.vis[p]
<1> DEFINE old == f.safe
           new == f.vis
           kept(n) == {p \in 1 .. n : p <= Len(old) /\ p <= Len(new) /\ old[p] = new[p]}
           made(n, how) == [p \in 1 .. n |->
               IF p \in kept(n) \/ (how[p] = "old" /\ p <= Len(old)) THEN old[p]
               ELSE IF how[p] = "new" /\ p <= Len(new) THEN new[p] ELSE torn]
<1>1. PICK n \in {Len(old), Len(new)} : g \in {made(n, how) : how \in [1 .. n \ kept(n) -> {"old", "new", "torn"}]}
  BY DEF Survivors
<1>2. PICK how : g = made(n, how)
  BY <1>1
<1>3. n \in Nat /\ Len(old) \in Nat /\ Len(new) \in Nat
  BY <1>1 DEF Numbered
<1>4. DOMAIN g = 1 .. n /\ g = [k \in 1 .. n |-> g[k]]
  BY <1>2
<1>5. Numbered(g) /\ Len(g) = n
  BY <1>3, <1>4, LenOf
<1>6. ASSUME NEW p \in 1 .. n
      PROVE  \/ g[p] = torn
             \/ p \in 1 .. Len(old) /\ g[p] = old[p]
             \/ p \in 1 .. Len(new) /\ g[p] = new[p]
  <2>1. p \in kept(n) => p <= Len(old)
    OBVIOUS
  <2>2. g[p] = IF p \in kept(n) \/ (how[p] = "old" /\ p <= Len(old)) THEN old[p]
               ELSE IF how[p] = "new" /\ p <= Len(new) THEN new[p] ELSE torn
    BY <1>2
  <2> HIDE DEF kept
  <2>3. QED
    BY <1>3, <2>1, <2>2
<1>7. ASSUME NEW p \in 1 .. n, p <= Len(old), p <= Len(new), old[p] = new[p]
      PROVE  g[p] = new[p]
  <2>1. p \in kept(n)
    BY <1>7
  <2>2. g[p] = old[p]
    BY <1>2, <2>1
  <2>3. QED
    BY <1>7, <2>2
<1>8. QED
  BY <1>1, <1>5, <1>6, <1>7

\* A database file after a power failure,
LEMMA SurvivingData ==
    ASSUME Sizes, NEW f, DataFile(f.vis), DataFile(f.safe), NEW g \in Survivors(f, Torn)
    PROVE  DataFile(g)
<1>1. Numbered(f.vis) /\ Numbered(f.safe)
  BY DEF DataFile
<1>2. Torn \in Page
  <2>1. -2 \in -2 .. MaxVersion /\ 0 \in 0 .. MaxPages
    BY DEF Sizes, MaxVersion
  <2>2. QED
    BY <2>1 DEF Torn, Page
<1>3. /\ Numbered(g) /\ Len(g) \in {Len(f.safe), Len(f.vis)}
      /\ \A p \in 1 .. Len(g) : \/ g[p] = Torn
                                \/ p \in 1 .. Len(f.safe) /\ g[p] = f.safe[p]
                                \/ p \in 1 .. Len(f.vis) /\ g[p] = f.vis[p]
  BY <1>1, SurvivorFacts
<1>4. \A p \in 1 .. Len(g) : g[p] \in Page
  BY <1>2, <1>3 DEF DataFile
<1>5. QED
  BY <1>3, <1>4 DEF DataFile

\* and a journal after one.
LEMMA SurvivingJournal ==
    ASSUME NEW f, NEW v, JournalFile(f.vis, v), JournalFile(f.safe, v), NEW g \in Survivors(f, Junk)
    PROVE  JournalFile(g, v)
<1>1. Numbered(f.vis) /\ Numbered(f.safe)
  BY DEF JournalFile
<1>2. IsBlock(Junk, v)
  BY DEF IsBlock, Junk
<1>3. /\ Numbered(g)
      /\ \A p \in 1 .. Len(g) : \/ g[p] = Junk
                                \/ p \in 1 .. Len(f.safe) /\ g[p] = f.safe[p]
                                \/ p \in 1 .. Len(f.vis) /\ g[p] = f.vis[p]
  BY <1>1, SurvivorFacts
<1>4. \A p \in 1 .. Len(g) : IsBlock(g[p], v)
  BY <1>2, <1>3 DEF JournalFile
<1>5. QED
  BY <1>3, <1>4 DEF JournalFile

\* The pager of a new process.
LEMMA OpenedPager ==
    ASSUME Sizes
    PROVE  PagerType(Opened) /\ Opened.eState = "OPEN" /\ Opened.cache = <<>> /\ Opened.nonce = 0
           /\ Opened.pInJournal = {} /\ Opened.sub = <<>> /\ Opened.header = 0 /\ Opened.aSavepoint = <<>>
<1> DEFINE w == [Opened EXCEPT !.cache = <<>>]
<1>1. CacheType(<<>>)
  BY DEF CacheType
<1>2. PagerType(w)
  BY <1>1, OpenedType
<1>3. w = Opened
  BY DEF Opened
<1>4. QED
  BY <1>2, <1>3 DEF Opened

\* A power failure keeps the invariant.
LEMMA PowerFailureRight ==
    ASSUME WholeInv, PowerFailure
    PROVE  WholeInv'
<1>1. /\ setting' = setting /\ ver' = ver /\ faults' = faults /\ pager' = Opened /\ pc' = Idle /\ gone' = NoFile
      /\ \E f \in Survivors(db, Torn) : db' = [vis |-> f, safe |-> f]
      /\ \E J \in Survivors(jrnl, Junk) \cup (IF gone = NoFile THEN {} ELSE Survivors(gone, Junk)) :
            jrnl' = [vis |-> J, safe |-> J]
  BY DEF PowerFailure
<1>2. /\ JournalFile(jrnl.vis, ver) /\ JournalFile(jrnl.safe, ver) /\ JournalFile(gone.vis, ver) /\ JournalFile(gone.safe, ver)
      /\ DataFile(db.vis) /\ DataFile(db.safe) /\ setting \in Settings /\ ver \in Nat /\ ver <= MaxVersion /\ faults \in Nat
  BY DEF WholeInv, Basics
<1>3. Sizes
  BY Bounds
<1>4. PICK f \in Survivors(db, Torn) : db' = [vis |-> f, safe |-> f]
  BY <1>1
<1>5. DataFile(db'.vis) /\ DataFile(db'.safe)
  BY <1>2, <1>3, <1>4, SurvivingData
<1>6. PICK J \in Survivors(jrnl, Junk) \cup (IF gone = NoFile THEN {} ELSE Survivors(gone, Junk)) :
          jrnl' = [vis |-> J, safe |-> J]
  BY <1>1
<1>7. JournalFile(J, ver)
  <2>1. CASE J \in Survivors(jrnl, Junk)
    BY <1>2, <2>1, SurvivingJournal
  <2>2. CASE J \in Survivors(gone, Junk)
    BY <1>2, <2>2, SurvivingJournal
  <2>3. QED
    BY <1>6, <2>1, <2>2
<1>8. JournalFile(jrnl'.vis, ver) /\ JournalFile(jrnl'.safe, ver)
  BY <1>6, <1>7
<1>9. JournalFile(gone'.vis, ver) /\ JournalFile(gone'.safe, ver)
  <2>1. NoFile.vis = <<>> /\ NoFile.safe = <<>>
    BY DEF NoFile
  <2>2. QED
    BY <1>1, <2>1, EmptyJournal
<1>10. /\ PagerType(pager') /\ pager'.eState = "OPEN" /\ pager'.cache = <<>> /\ pager'.nonce = 0
       /\ pager'.pInJournal = {} /\ pager'.sub = <<>> /\ pager'.header = 0 /\ pager'.aSavepoint = <<>>
  BY <1>1, <1>3, OpenedPager
<1>11. DOMAIN Idle = {"at", "task", "page"} /\ Idle.at = "idle" /\ Idle.task = "none"
  BY DEF Idle
<1>12. Basics'
  BY <1>1, <1>2, <1>3, <1>5, <1>8, <1>9, <1>10, <1>11, BasicsRight
<1>13. Flow' /\ ReaderRight' /\ LockedRight' /\ WriterRight'
  BY <1>1, <1>10 DEF Flow, ReaderRight, LockedRight, WriterRight, Opened3
<1>14. OpenRight'
  BY <1>1, <1>10, <1>11 DEF OpenRight, Reliable
<1>15. QED
  BY <1>12, <1>13, <1>14 DEF WholeInv

(***************************************************************************)
(* A roll back to a savepoint.                                             *)
(***************************************************************************)
\* What changes store in a file that may not have their pages yet.
LEMMA StoredBeyond ==
    ASSUME Sizes, NEW f, DataFile(f), NEW n \in Nat, n <= MaxPages, NEW c, Changed(c, n), NEW S, S \subseteq DOMAIN c
    PROVE  LET l == Latest(c, S)
               s == Stored(f, l)
           IN  /\ DataFile(s) /\ Len(s) >= Len(f) /\ (S = {} => Len(s) = Len(f)) /\ (l = <<>> => S = {})
               /\ \A k \in S : c[k].pgno <= Len(s)
               /\ \A p \in 1 .. Len(f) : (\A k \in S : c[k].pgno # p) => s[p] = f[p]
               /\ OncePerPage(c) => \A k \in S : s[c[k].pgno] = c[k].data
<1> DEFINE l == Latest(c, S)
           s == Stored(f, l)
<1>1. /\ \A p \in DOMAIN l : \E k \in S : c[k].pgno = p
      /\ \A k \in S : c[k].pgno \in DOMAIN l
      /\ \A p \in DOMAIN l : \E k \in S : c[k].pgno = p /\ l[p] = c[k].data
      /\ OncePerPage(c) => \A k \in S : c[k].pgno \in DOMAIN l /\ l[c[k].pgno] = c[k].data
  <2>1. ChangeList(c)
    BY DEF Changed
  <2>2. QED
    BY <2>1, LatestFacts
<1>2. Numbered(f) /\ Len(f) \in Nat /\ Len(f) <= MaxPages /\ MaxPages \in Nat /\ \A p \in 1 .. Len(f) : f[p] \in Page
  BY DEF DataFile, Numbered, Sizes
<1>3. \A k \in S : c[k].pgno \in 1 .. n /\ c[k].data \in Page
  BY DEF Changed
<1>4. Zero \in Page
  BY DEF Sizes, Zero, Page, MaxVersion
<1> HIDE DEF l
<1>5. DOMAIN l \subseteq 1 .. n /\ \A p \in DOMAIN l : l[p] \in Page
  BY <1>1, <1>3
<1>6. /\ Numbered(s) /\ Len(s) >= Len(f) /\ (Len(s) = Len(f) \/ Len(s) \in DOMAIN l)
      /\ \A p \in DOMAIN l : p <= Len(s)
      /\ \A p \in 1 .. Len(s) : s[p] = IF p \in DOMAIN l THEN l[p] ELSE IF p <= Len(f) THEN f[p] ELSE Zero
  BY <1>2, <1>5, StoredFacts
<1> HIDE DEF s
<1>7. Len(s) \in Nat /\ Len(s) <= MaxPages
  BY <1>2, <1>5, <1>6
<1>8. \A p \in 1 .. Len(s) : s[p] \in Page
  BY <1>2, <1>4, <1>5, <1>6
<1>9. DataFile(s)
  BY <1>6, <1>7, <1>8 DEF DataFile
<1>10. S = {} => Len(s) = Len(f)
  BY <1>1, <1>6
<1>11. l = <<>> => S = {}
  <2>1. DOMAIN <<>> = {}
    OBVIOUS
  <2>2. QED
    BY <1>1, <2>1
<1>12. \A p \in 1 .. Len(f) : (\A k \in S : c[k].pgno # p) => s[p] = f[p]
  <2>1. \A p \in 1 .. Len(f) : p \in 1 .. Len(s)
    BY <1>2, <1>6, <1>7
  <2>2. QED
    BY <1>1, <1>6, <2>1
<1>13. ASSUME OncePerPage(c), NEW k \in S PROVE s[c[k].pgno] = c[k].data
  <2>1. c[k].pgno \in DOMAIN l /\ l[c[k].pgno] = c[k].data
    BY <1>1, <1>13
  <2>2. c[k].pgno \in 1 .. Len(s)
    BY <1>5, <1>6, <1>7, <2>1
  <2>3. QED
    BY <1>6, <2>1, <2>2
<1>14. QED
  BY <1>1, <1>6, <1>9, <1>10, <1>11, <1>12, <1>13 DEF s, l

\* Changes that come from the records of the transaction and from its sub-journal.
FromJournal(g, J, c) ==
    \A k \in DOMAIN c :
        \/ k \in Records(g, J) /\ c[k].at = k /\ c[k].pgno = J[k].pgno /\ c[k].data = J[k].data
        \/ c[k].at = 0 /\ c[k].pgno \in DOMAIN g.cache /\ (c[k].pgno \in g.pInJournal \/ c[k].pgno > g.dbOrigSize)

\* What playing them leaves of a pager g with the file f: w, with the file s.
Undoes(g, J, f, n, c, w, s) ==
    /\ DOMAIN w = Fields /\ SameCore(g, w) /\ PagerType(w) /\ DataFile(s)
    /\ w.dbSize = n /\ w.sub = g.sub /\ w.aSavepoint = g.aSavepoint /\ DOMAIN w.cache = DOMAIN g.cache
    /\ CacheRight(w, J, s) /\ (OwnRecords => ContentRight(w, J, s))
    /\ \A k \in DOMAIN c : c[k].pgno = 1 => PagesOf(w, s) = c[k].data.n
    /\ n > 0 /\ (\A k \in DOMAIN c : c[k].pgno # 1) => PagesOf(w, s) = PagesOf(g, f)

\* The changes that are stored in the file, and the pages that are loaded into the cache.
StoredOf(g, c) == {k \in DOMAIN c : SafeToStore(g, c[k])}
LoadedBy(g, c) == ({c[k].pgno : k \in {m \in DOMAIN c : c[m].at = 0}} \ DOMAIN Latest(c, StoredOf(g, c))) \ DOMAIN g.cache

Resized(g, n) == [g EXCEPT !.dbSize = n]

\* The pager that plays changes, field by field.
LEMMA PlayedIs ==
    ASSUME NEW g, DOMAIN g = Fields, NEW n, NEW f, NEW c
    PROVE  LET u == Played(Resized(g, n), f, c)
               l == Latest(c, StoredOf(g, c))
           IN  /\ u.f = Stored(f, l)
               /\ DOMAIN u.g = Fields /\ SameCore(g, u.g) /\ u.g.dbSize = n /\ u.g.sub = g.sub
               /\ u.g.aSavepoint = g.aSavepoint /\ u.g.cache = Restored(g.cache, Pages(c), LoadedBy(g, c))
               /\ u.g.dbFileSize = Bigger(g.dbFileSize, IF l = <<>> THEN 0 ELSE Len(u.f))
<1> DEFINE h == Resized(g, n)
           S == {k \in DOMAIN c : SafeToStore(g, c[k])}
           T == {k \in DOMAIN c : SafeToStore(h, c[k])}
           l == Latest(c, S)
           paged == {c[k].pgno : k \in {m \in DOMAIN c : c[m].at = 0}}
           load == (paged \ DOMAIN l) \ DOMAIN g.cache
           s == Stored(f, l)
           r == Restored(g.cache, Pages(c), load)
           size == Bigger(g.dbFileSize, IF l = <<>> THEN 0 ELSE Len(s))
           u == Played(h, f, c)
<1>1. /\ DOMAIN h = Fields /\ SameCore(g, h) /\ h.dbSize = n /\ h.sub = g.sub /\ h.aSavepoint = g.aSavepoint
      /\ h.cache = g.cache /\ h.dbFileSize = g.dbFileSize
  BY DEF Fields, SameCore, Resized
<1> HIDE DEF h
<1>2. \A x : SafeToStore(h, x) = SafeToStore(g, x)
  BY <1>1 DEF SafeToStore, SameCore
<1>3. T = S
  BY <1>2
<1>4. u = [g |-> [h EXCEPT !.cache = Restored(h.cache, Pages(c), (paged \ DOMAIN Latest(c, T)) \ DOMAIN h.cache),
                           !.dbFileSize = Bigger(h.dbFileSize, IF Latest(c, T) = <<>> THEN 0 ELSE Len(Stored(f, Latest(c, T))))],
           f |-> Stored(f, Latest(c, T))]
  BY DEF Played
<1>5. u = [g |-> [h EXCEPT !.cache = r, !.dbFileSize = size], f |-> s]
  BY <1>1, <1>3, <1>4
<1> HIDE DEF r, size, s, u
<1>6. u.g = [h EXCEPT !.cache = r, !.dbFileSize = size] /\ u.f = s
  BY <1>5
<1>7. /\ DOMAIN u.g = Fields /\ SameCore(h, u.g) /\ u.g.dbSize = h.dbSize /\ u.g.sub = h.sub /\ u.g.aSavepoint = h.aSavepoint
      /\ u.g.cache = r /\ u.g.dbFileSize = size
  BY <1>1, <1>6 DEF Fields, SameCore
<1>8. SameCore(g, u.g)
  BY <1>1, <1>7 DEF SameCore
<1>9. QED
  BY <1>1, <1>6, <1>7, <1>8 DEF u, h, s, r, size, load, l, S, paged, StoredOf, LoadedBy

\* Playing changes of a transaction back leaves a pager whose cache, file and journal agree.
LEMMA PlayedRight ==
    ASSUME Sizes, NEW g, NEW J, NEW f, NEW safe, NEW v, Ready(g, J, f, safe, v),
           NEW n \in Nat, g.dbOrigSize <= n, n <= g.dbSize, g.dbSize > 0,
           NEW c, Changed(c, n), OncePerPage(c), FromJournal(g, J, c)
    PROVE  LET u == Played(Resized(g, n), f, c)
           IN  Undoes(g, J, f, n, c, u.g, u.f)
<1> DEFINE u == Played(Resized(g, n), f, c)
           S == StoredOf(g, c)
           l == Latest(c, S)
           load == LoadedBy(g, c)
           w == u.g
           s == u.f
           r == Restored(g.cache, Pages(c), load)
<1>1. /\ DOMAIN g = Fields /\ PagerType(g) /\ DataFile(f) /\ Layout(g, J) /\ RecordsRight(g, J) /\ SyncedRight(g, J, safe)
      /\ CacheRight(g, J, f) /\ (OwnRecords => ContentRight(g, J, f)) /\ g.eState \in {"CACHEMOD", "DBMOD"}
  BY DEF Ready, PagerType
<1>2. /\ CacheType(g.cache) /\ DOMAIN g.cache \subseteq 1 .. MaxPages /\ g.dbSize \in 0 .. MaxPages
      /\ g.dbOrigSize \in 0 .. MaxPages /\ g.dbFileSize \in Nat /\ MaxPages \in Nat /\ n <= MaxPages
      /\ g.pInJournal \subseteq 1 .. g.dbOrigSize /\ Len(f) \in Nat
    BY <1>1 DEF PagerType, CacheType, DataFile, Numbered, Sizes
<1>3. load = {}
  <2>1. \A k \in DOMAIN c : c[k].at = 0 => c[k].pgno \in DOMAIN g.cache
    <3> TAKE k \in DOMAIN c
    <3>1. k \in Records(g, J) => k # 0
      BY DEF Records, RecordsIn
    <3>2. QED
      BY <3>1 DEF FromJournal
  <2>2. QED
    BY <2>1 DEF LoadedBy
<1>4. /\ s = Stored(f, l) /\ DOMAIN w = Fields /\ SameCore(g, w) /\ w.dbSize = n /\ w.sub = g.sub
      /\ w.aSavepoint = g.aSavepoint /\ w.cache = r
      /\ w.dbFileSize = Bigger(g.dbFileSize, IF l = <<>> THEN 0 ELSE Len(s))
  <2>1. DOMAIN g = Fields
    BY <1>1
  <2>2. QED
    BY <2>1, PlayedIs
<1>5. /\ DataFile(s) /\ Len(s) >= Len(f) /\ (S = {} => Len(s) = Len(f)) /\ (l = <<>> => S = {})
      /\ \A p \in 1 .. Len(f) : (\A k \in S : c[k].pgno # p) => s[p] = f[p]
      /\ \A k \in S : s[c[k].pgno] = c[k].data
  <2>1. S \subseteq DOMAIN c
    BY DEF StoredOf
  <2> HIDE DEF S
  <2>2. QED
    BY <1>1, <1>2, <1>4, <2>1, StoredBeyond
<1>6. /\ CacheType(w.cache) /\ DOMAIN w.cache = DOMAIN g.cache
      /\ \A p \in DOMAIN g.cache : w.cache[p].dirty = g.cache[p].dirty /\ w.cache[p].sync = g.cache[p].sync
      /\ \A p \in DOMAIN g.cache : (\A k \in DOMAIN c : c[k].pgno # p) => w.cache[p] = g.cache[p]
      /\ \A k \in DOMAIN c : c[k].pgno \in DOMAIN w.cache => w.cache[c[k].pgno].data = c[k].data
  <2>1. Loads(load, c, g.cache)
    BY <1>3 DEF Loads
  <2>2. RestoredFrom(g.cache, c, load, r)
    <3> HIDE DEF load
    <3>1. QED
      BY <1>2, <2>1, RestoredChanges
  <2> HIDE DEF load, r
  <2>3. QED
    BY <1>3, <1>4, <2>2 DEF RestoredFrom
<1>7. \A k \in S : /\ k \in DOMAIN c /\ g.eState = "DBMOD"
                   /\ \/ k \in Records(g, J) /\ k <= g.journalHdr /\ c[k].pgno = J[k].pgno
                      \/ c[k].at = 0 /\ ~Flag(g.cache, c[k].pgno)
  <2> TAKE k \in S
  <2>0. k \in DOMAIN c
    BY DEF StoredOf
  <2>1. g.eState = "DBMOD" /\ (IF c[k].at > 0 THEN c[k].at <= g.journalHdr ELSE ~Flag(g.cache, c[k].pgno))
    BY <1>1 DEF SafeToStore, StoredOf
  <2>2. \/ k \in Records(g, J) /\ c[k].at = k /\ c[k].pgno = J[k].pgno
        \/ c[k].at = 0
    BY DEF FromJournal, StoredOf
  <2>3. k \in Records(g, J) => k \in Nat /\ k > 0
    <3>1. LastOf(g) \in Nat
      BY <1>1 DEF PagerType, LastOf
    <3>2. QED
      BY <3>1 DEF Records, RecordsIn
  <2>4. QED
    BY <2>0, <2>1, <2>2, <2>3
<1>8. \A k \in DOMAIN c : g.eState = "DBMOD" /\ k \notin S =>
          \/ k \in Records(g, J) /\ k > g.journalHdr /\ c[k].pgno = J[k].pgno
          \/ Flag(g.cache, c[k].pgno)
  <2> TAKE k \in DOMAIN c
  <2> HAVE g.eState = "DBMOD" /\ k \notin S
  <2>1. ~(IF c[k].at > 0 THEN c[k].at <= g.journalHdr ELSE ~Flag(g.cache, c[k].pgno))
    BY DEF SafeToStore, StoredOf
  <2>2. \/ k \in Records(g, J) /\ c[k].at = k /\ c[k].pgno = J[k].pgno
        \/ c[k].at = 0
    BY DEF FromJournal
  <2>3. (k \in Records(g, J) => k \in Nat /\ k > 0) /\ g.journalHdr \in Nat
    <3>1. LastOf(g) \in Nat /\ g.journalHdr \in Nat
      BY <1>1 DEF PagerType, LastOf
    <3>2. QED
      BY <3>1 DEF Records, RecordsIn
  <2>4. QED
    BY <2>1, <2>2, <2>3
<1>9. \A k \in DOMAIN c : c[k].pgno \in g.pInJournal \/ c[k].pgno > g.dbOrigSize
  BY <1>1 DEF FromJournal, RecordsRight
<1>10. LastOf(w) = LastOf(g) /\ Records(w, J) = Records(g, J)
  BY <1>4, SameCoreFacts
<1> HIDE DEF u, S, l, load, w, s, r
<1>11. PagerType(w)
  <2>1. w.dbFileSize \in Nat
    <3>1. Len(s) \in Nat
      BY <1>5 DEF DataFile, Numbered
    <3>2. (IF l = <<>> THEN 0 ELSE Len(s)) \in Nat
      BY <3>1
    <3>3. QED
      BY <1>2, <1>4, <3>2, BiggerFacts
  <2>2. n \in 0 .. MaxPages
    BY <1>2
  <2>3. QED
    BY <1>1, <1>4, <1>6, <2>1, <2>2 DEF PagerType, SameCore
<1>12. CacheRight(w, J, s)
  <2>1. /\ w.pInJournal = g.pInJournal /\ w.dbOrigSize = g.dbOrigSize /\ w.eState = g.eState /\ w.journalHdr = g.journalHdr
    BY <1>4 DEF SameCore
  <2>2. /\ g.pInJournal \subseteq DOMAIN g.cache
        /\ \A p \in g.dbOrigSize + 1 .. g.dbSize : p \in DOMAIN g.cache
        /\ g.dbFileSize = Len(f) /\ g.dbOrigSize <= Len(f)
        /\ g.eState = "CACHEMOD" =>
              /\ Len(f) = g.dbOrigSize
              /\ \A p \in DOMAIN g.cache : p \in g.pInJournal \/ p > g.dbOrigSize => g.cache[p].dirty
        /\ \A b \in Records(g, J) : b > g.journalHdr => g.cache[J[b].pgno].sync
        /\ \A p \in DOMAIN g.cache : ~g.cache[p].dirty /\ p <= g.dbSize => p <= Len(f)
    BY <1>1 DEF CacheRight
  <2>3. Len(s) \in Nat
    BY <1>5 DEF DataFile, Numbered
  <2>4. w.dbFileSize = Len(s)
    <3>1. CASE l = <<>>
      BY <1>2, <1>4, <1>5, <2>2, <3>1 DEF Bigger
    <3>2. CASE l # <<>>
      BY <1>2, <1>4, <1>5, <2>2, <2>3, <3>2 DEF Bigger
    <3>3. QED
      BY <3>1, <3>2
  <2>5. w.dbOrigSize <= Len(s)
    BY <1>2, <1>5, <2>1, <2>2, <2>3
  <2>6. \A p \in w.dbOrigSize + 1 .. w.dbSize : p \in DOMAIN w.cache
    <3>1. \A p \in g.dbOrigSize + 1 .. n : p \in g.dbOrigSize + 1 .. g.dbSize
      BY <1>2
    <3>2. QED
      BY <1>4, <1>6, <2>1, <2>2, <3>1
  <2>7. w.eState = "CACHEMOD" =>
            /\ Len(s) = w.dbOrigSize
            /\ \A p \in DOMAIN w.cache : p \in w.pInJournal \/ p > w.dbOrigSize => w.cache[p].dirty
    <3> HAVE w.eState = "CACHEMOD"
    <3>1. S = {}
      BY <1>7, <2>1
    <3>2. QED
      BY <1>5, <1>6, <2>1, <2>2, <3>1
  <2>8. \A b \in Records(g, J) : b > w.journalHdr => w.cache[J[b].pgno].sync
    <3> TAKE b \in Records(g, J)
    <3>1. J[b].pgno \in DOMAIN g.cache
      BY <1>1, <2>2 DEF RecordsRight
    <3>2. QED
      BY <1>6, <2>1, <2>2, <3>1
  <2>9. \A p \in DOMAIN w.cache : ~w.cache[p].dirty /\ p <= w.dbSize => p <= Len(s)
    <3> TAKE p \in DOMAIN w.cache
    <3>1. p \in Nat
      BY <1>2, <1>6
    <3>2. QED
      BY <1>2, <1>4, <1>5, <1>6, <2>2, <2>3, <3>1
  <2>10. w.pInJournal \subseteq DOMAIN w.cache /\ w.dbOrigSize <= w.dbSize
    BY <1>4, <1>6, <2>1, <2>2
  <2>11. QED
    BY <1>10, <2>4, <2>5, <2>6, <2>7, <2>8, <2>9, <2>10 DEF CacheRight
<1>13. ASSUME OwnRecords PROVE ContentRight(w, J, s)
  <2>1. w.pInJournal = g.pInJournal /\ w.dbOrigSize = g.dbOrigSize /\ w.journalHdr = g.journalHdr
    BY <1>4 DEF SameCore
  <2>2. /\ \A b \in Records(g, J) : b > g.journalHdr => J[b].data = f[J[b].pgno]
        /\ \A p \in DOMAIN g.cache : p <= g.dbOrigSize /\ p \notin g.pInJournal => g.cache[p].data = f[p]
        /\ \A p \in DOMAIN g.cache : ~g.cache[p].dirty /\ p <= g.dbSize => g.cache[p].data = f[p]
    BY <1>1, <1>13 DEF ContentRight
  <2>3. /\ g.pInJournal \subseteq DOMAIN g.cache /\ g.dbOrigSize <= Len(f)
        /\ g.eState = "CACHEMOD" => \A p \in DOMAIN g.cache : p \in g.pInJournal \/ p > g.dbOrigSize => g.cache[p].dirty
        /\ \A b \in Records(g, J) : b > g.journalHdr => g.cache[J[b].pgno].sync
        /\ \A p \in DOMAIN g.cache : ~g.cache[p].dirty /\ p <= g.dbSize => p <= Len(f)
    BY <1>1 DEF CacheRight
  <2>4. /\ \A a, b \in Records(g, J) : J[a].pgno = J[b].pgno => a = b
        /\ \A b \in Records(g, J) : J[b].pgno \in g.pInJournal
    BY <1>1 DEF RecordsRight
  <2>5. ASSUME NEW b \in Records(g, J), b > g.journalHdr PROVE J[b].data = s[J[b].pgno]
    <3>1. J[b].pgno \in g.pInJournal /\ J[b].pgno \in 1 .. Len(f) /\ Flag(g.cache, J[b].pgno)
      BY <1>2, <2>3, <2>4, <2>5 DEF Flag
    <3>2. g.journalHdr \in Nat /\ b \in Nat
      <4>1. LastOf(g) \in Nat /\ g.journalHdr \in Nat
        BY <1>1 DEF PagerType, LastOf
      <4>2. QED
        BY <4>1 DEF Records, RecordsIn
    <3>3. ASSUME NEW k \in S PROVE c[k].pgno # J[b].pgno
      <4>1. CASE k \in Records(g, J) /\ k <= g.journalHdr /\ c[k].pgno = J[k].pgno
        <5>1. k # b
          BY <2>5, <3>2, <4>1
        <5>2. QED
          BY <2>4, <4>1, <5>1
      <4>2. CASE ~Flag(g.cache, c[k].pgno)
        BY <3>1, <4>2
      <4>3. QED
        BY <1>7, <4>1, <4>2
    <3>4. s[J[b].pgno] = f[J[b].pgno]
      BY <1>5, <3>1, <3>3
    <3>5. QED
      BY <2>2, <2>5, <3>4
  <2>6. ASSUME NEW p \in DOMAIN w.cache, p <= g.dbOrigSize, p \notin g.pInJournal PROVE w.cache[p].data = s[p]
    <3>1. p \in 1 .. Len(f) /\ p \in DOMAIN g.cache
      BY <1>2, <1>6, <2>3, <2>6
    <3>2. \A k \in DOMAIN c : c[k].pgno # p
      BY <1>2, <1>9, <2>6, <3>1
    <3>3. s[p] = f[p]
      BY <1>5, <1>7, <3>1, <3>2
    <3>4. QED
      BY <1>6, <2>2, <2>6, <3>1, <3>2, <3>3
  <2>7. ASSUME NEW p \in DOMAIN w.cache, ~w.cache[p].dirty, p <= n PROVE w.cache[p].data = s[p]
    <3>1. p \in DOMAIN g.cache /\ p \in Nat /\ p > 0 /\ ~g.cache[p].dirty /\ p <= g.dbSize
      BY <1>2, <1>6, <2>7
    <3>2. p \in 1 .. Len(f) /\ g.cache[p].data = f[p]
      BY <1>2, <2>2, <2>3, <3>1
    <3>3. CASE \A k \in DOMAIN c : c[k].pgno # p
      <4>1. s[p] = f[p]
        BY <1>5, <1>7, <3>2, <3>3
      <4>2. QED
        BY <1>6, <3>1, <3>2, <3>3, <4>1
    <3>4. CASE \E k \in DOMAIN c : c[k].pgno = p
      <4>1. PICK k \in DOMAIN c : c[k].pgno = p
        BY <3>4
      <4>2. ~Flag(g.cache, p)
        BY <1>2, <3>1 DEF Flag, CacheType
      <4>3. g.eState = "DBMOD"
        BY <1>1, <1>9, <2>3, <3>1, <4>1
      <4>4. k \in S
        <5>1. SUFFICES ASSUME k \notin S PROVE FALSE
          OBVIOUS
        <5>2. k \in Records(g, J) /\ k > g.journalHdr /\ c[k].pgno = J[k].pgno
          BY <1>8, <4>1, <4>2, <4>3, <5>1
        <5>3. g.cache[p].sync
          BY <2>3, <4>1, <5>2
        <5>4. QED
          BY <3>1, <4>2, <5>3 DEF Flag
      <4>5. s[p] = c[k].data
        BY <1>5, <4>1, <4>4
      <4>6. w.cache[p].data = c[k].data
        BY <1>6, <2>7, <4>1
      <4>7. QED
        BY <4>5, <4>6
    <3>5. QED
      BY <3>3, <3>4
  <2>8. QED
    BY <1>4, <1>10, <2>1, <2>5, <2>6, <2>7 DEF ContentRight
<1>14. \A k \in DOMAIN c : c[k].pgno = 1 => PagesOf(w, s) = c[k].data.n
  <2> TAKE k \in DOMAIN c
  <2> HAVE c[k].pgno = 1
  <2>1. 1 \in DOMAIN g.cache
    BY <1>1 DEF FromJournal, RecordsRight, CacheRight
  <2>2. w.cache[1].data = c[k].data
    BY <1>6, <2>1
  <2>3. QED
    BY <1>6, <2>1, <2>2 DEF PagesOf, Get
<1>15. ASSUME n > 0, \A k \in DOMAIN c : c[k].pgno # 1 PROVE PagesOf(w, s) = PagesOf(g, f)
  <2>1. CASE 1 \in DOMAIN g.cache
    BY <1>6, <1>15, <2>1 DEF PagesOf, Get
  <2>2. CASE 1 \notin DOMAIN g.cache
    <3>1. \A p \in g.dbOrigSize + 1 .. g.dbSize : p \in DOMAIN g.cache
      BY <1>1 DEF CacheRight
    <3>2. g.dbOrigSize > 0
      BY <1>2, <2>2, <3>1
    <3>3. 1 \in 1 .. Len(f) /\ 1 <= Len(s) /\ 1 <= n /\ 1 <= g.dbSize
      <4>1. g.dbOrigSize <= Len(f) /\ Len(s) \in Nat
        BY <1>1, <1>5 DEF CacheRight, DataFile, Numbered
      <4>2. QED
        BY <1>2, <1>5, <1>15, <3>2, <4>1
    <3>4. s[1] = f[1]
      BY <1>5, <1>7, <1>15, <3>3
    <3>5. QED
      BY <1>4, <1>6, <2>2, <3>3, <3>4 DEF PagesOf, Get
  <2>3. QED
    BY <2>1, <2>2
<1>16. QED
  BY <1>4, <1>5, <1>6, <1>11, <1>12, <1>13, <1>14, <1>15 DEF Undoes, u, w, s

\* The records that the journal got since a savepoint.
Since(g, J, sp) == {b \in Records(g, J) : b > sp.iOffset}

\* The blocks that pagerPlaybackSavepoint reads are the records since the savepoint.
LEMMA SavepointBlocks ==
    ASSUME NEW g, NEW J, NEW f, NEW safe, NEW v, Ready(g, J, f, safe, v), NEW sp \in Save, SaveRight(g, J, f, sp),
           NEW h, h = IF sp.iHdrOffset = 0 THEN g.journalOff ELSE sp.iHdrOffset
    PROVE  (sp.iOffset + 1 .. h) \cup Blocks(J, h + 1, g.journalOff, InProgress(g), FALSE) = Since(g, J, sp)
<1> DEFINE last == LastOf(g)
           o == sp.iOffset
           B == Blocks(J, h + 1, last, InProgress(g), FALSE)
<1>1. /\ g.journalHdr \in Nat /\ g.nRec \in Nat /\ g.header = g.journalHdr + 1 /\ last = g.journalHdr + 1 + g.nRec
      /\ last \in Nat /\ g.journalOff = last /\ Len(J) \in Nat /\ last <= Len(J) /\ InProgressRight(g, J)
  BY ReadyEnd
<1>2. o \in Nat /\ sp.iHdrOffset \in Nat /\ o > 0 /\ o <= last
  BY DEF SaveRight, Save
<1>3. Records(g, J) = {k \in 1 .. last : J[k].kind = "rec"}
  BY DEF Records, RecordsIn
<1> HIDE DEF last, o
<1>4. CASE sp.iHdrOffset = 0
  <2>1. h = last /\ o > g.journalHdr
    BY <1>1, <1>2, <1>4 DEF SaveRight, o
  <2>2. B = {}
    <3>1. h + 1 > last
      BY <1>1, <2>1
    <3>2. QED
      BY <3>1 DEF Blocks
  <2> HIDE DEF B
  <2>3. \A k \in o + 1 .. last : J[k].kind = "rec"
    <3>1. \A k \in g.journalHdr + 2 .. last : J[k].kind = "rec"
      BY <1>1 DEF InProgressRight, last
    <3>2. \A k \in o + 1 .. last : k \in g.journalHdr + 2 .. last
      BY <1>1, <1>2, <2>1
    <3>3. QED
      BY <3>1, <3>2
  <2>4. \A b : b \in o + 1 .. last <=> b \in 1 .. last /\ b > o
    BY <1>1, <1>2
  <2>5. (o + 1 .. h) \cup B = {b \in Records(g, J) : b > o}
    BY <1>3, <2>1, <2>2, <2>3, <2>4
  <2>6. QED
    BY <1>1, <2>5 DEF Since, o, B
<1>5. CASE sp.iHdrOffset # 0
  <2>1. /\ h = sp.iHdrOffset /\ o <= h /\ h <= g.journalHdr /\ \A m \in o + 1 .. h : J[m].kind = "rec"
        /\ J[h + 1].kind = "hdr"
    BY <1>5 DEF SaveRight, o
  <2>2. B = RecordsIn(J, h + 1, last)
    <3> DEFINE from == h + 1
    <3>1. from \in 1 .. g.journalHdr + 1 /\ from <= last
      BY <1>1, <1>2, <2>1
    <3>2. J[from].kind = "hdr"
      BY <2>1
    <3>3. PagerType(g) /\ JournalFile(J, v) /\ Layout(g, J) /\ HeaderRight(g, J)
      BY DEF Ready, HeaderRight
    <3>4. g.header # 0 /\ last = LastOf(g) /\ LastOf(g) <= last
      BY <1>1 DEF last
    <3> HIDE DEF from
    <3>5. Blocks(J, from, last, InProgress(g), FALSE) = RecordsIn(J, from, LastOf(g))
      <4>1. g.header = 0 => ~setting.aligned
        BY <3>4
      <4>2. last \in Nat /\ last <= Len(J)
        BY <1>1
      <4>3. PagerType(g) /\ JournalFile(J, v) /\ Layout(g, J) /\ HeaderRight(g, J) /\ LastOf(g) <= last
        BY <3>3, <3>4
      <4>4. QED
        BY <3>1, <3>2, <4>1, <4>2, <4>3, OwnBlocks
    <3>6. QED
      BY <3>4, <3>5 DEF from
  <2> HIDE DEF B
  <2>3. B = {k \in h + 1 .. last : J[k].kind = "rec"}
    BY <2>2 DEF RecordsIn
  <2>4. \A b : b \in (o + 1 .. h) \/ b \in (h + 1 .. last) <=> b \in 1 .. last /\ b > o
    BY <1>1, <1>2, <1>5, <2>1
  <2>5. (o + 1 .. h) \cup B = {b \in Records(g, J) : b > o}
    BY <1>3, <2>1, <2>3, <2>4
  <2>6. QED
    BY <1>1, <2>5 DEF Since, o, B
<1>6. QED
  BY <1>4, <1>5

\* The changes of a roll back to a savepoint have what it needs of page 1.
HaveOne(g, J, sp, c) ==
    /\ \A b \in MainOne(g, J, sp) : \E k \in DOMAIN c : c[k].pgno = 1 /\ c[k].data = J[b].data
    /\ MainOne(g, J, sp) = {} =>
          \A i \in SubOne(g, sp) : (\A m \in SubOne(g, sp) : i <= m) =>
              \E k \in DOMAIN c : c[k].pgno = 1 /\ c[k].data = g.sub[i].data
    /\ MainOne(g, J, sp) = {} /\ SubOne(g, sp) = {} => \A k \in DOMAIN c : c[k].pgno # 1

\* Of the changes to a page the first counts.
LEMMA FirstOfPageFacts ==
    ASSUME NEW a, ChangeList(a)
    PROVE  LET c == FirstOfPage(a)
           IN  /\ DOMAIN c \subseteq DOMAIN a /\ \A k \in DOMAIN c : c[k] = a[k]
               /\ OncePerPage(c)
               /\ \A j \in DOMAIN a : (\A m \in DOMAIN a : m < j => a[m].pgno # a[j].pgno) => j \in DOMAIN c
<1> DEFINE c == FirstOfPage(a)
<1>1. PICK n \in Nat : DOMAIN a \subseteq 0 .. n
  BY DEF ChangeList
<1>2. DOMAIN c = {j \in DOMAIN a : \A m \in DOMAIN a : m < j => a[m].pgno # a[j].pgno} /\ \A k \in DOMAIN c : c[k] = a[k]
  BY DEF FirstOfPage
<1> HIDE DEF c
<1>3. ASSUME NEW i \in DOMAIN c, NEW j \in DOMAIN c, c[i].pgno = c[j].pgno PROVE i = j
  <2>1. i \in Nat /\ j \in Nat /\ i \in DOMAIN a /\ j \in DOMAIN a /\ a[i].pgno = a[j].pgno
    BY <1>1, <1>2, <1>3
  <2>2. ~(i < j) /\ ~(j < i)
    BY <1>2, <2>1
  <2>3. QED
    BY <2>1, <2>2
<1>4. QED
  BY <1>2, <1>3 DEF OncePerPage, c

\* What pagerPlaybackSavepoint reads.
LEMMA SavepointChangesFacts ==
    ASSUME Sizes, NEW g, NEW J, NEW f, NEW safe, NEW v, Ready(g, J, f, safe, v), NEW sp \in Save, SaveRight(g, J, f, sp),
           sp.iSubRec <= Len(g.sub)
    PROVE  LET c == SavepointChanges(g, J, sp)
           IN  /\ Changed(c, sp.nOrig) /\ OncePerPage(c) /\ FromJournal(g, J, c) /\ HaveOne(g, J, sp, c)
               /\ \A k \in DOMAIN c : c[k].at \in Nat
<1> DEFINE szJ == g.journalOff
           iHdrOff == IF sp.iHdrOffset = 0 THEN szJ ELSE sp.iHdrOffset
           blocks == (sp.iOffset + 1 .. iHdrOff) \cup Blocks(J, iHdrOff + 1, szJ, InProgress(g), FALSE)
           main == Changes(J, blocks, sp.nOrig)
           sub == {i \in sp.iSubRec + 1 .. Len(g.sub) : g.sub[i].pgno <= sp.nOrig}
           all == [k \in DOMAIN main \cup {szJ + i : i \in sub} |->
                      IF k \in DOMAIN main THEN main[k]
                      ELSE [pgno |-> g.sub[k - szJ].pgno, data |-> g.sub[k - szJ].data, at |-> 0]]
           c == SavepointChanges(g, J, sp)
           n == sp.nOrig
<1>1. c = FirstOfPage(all)
  <2>1. g.jfd = TRUE
    BY DEF Ready, Layout
  <2>2. c = The({FirstOfPage(x) : x \in {all}})
    BY <2>1 DEF SavepointChanges
  <2> HIDE DEF all
  <2>3. {FirstOfPage(x) : x \in {all}} = {FirstOfPage(all)}
    OBVIOUS
  <2>4. QED
    BY <2>2, <2>3, TheOne
<1>2. /\ PagerType(g) /\ JournalFile(J, v) /\ RecordsRight(g, J) /\ SubRight(g) /\ szJ \in Nat /\ szJ = LastOf(g)
      /\ szJ <= Len(J) /\ Len(J) \in Nat
  BY ReadyEnd DEF Ready, SavesRight, PagerType
<1>3. blocks = Since(g, J, sp)
  BY SavepointBlocks
<1> HIDE DEF blocks, iHdrOff
<1>4. /\ n \in Nat /\ n <= MaxPages /\ sp.iSubRec \in Nat /\ n > 0 /\ g.dbOrigSize <= n
      /\ g.sub \in Seq(Entry) /\ Len(g.sub) \in Nat
  <2>1. n \in 0 .. MaxPages /\ sp.iSubRec \in Nat
    BY DEF Save
  <2>2. QED
    BY <1>2, <2>1 DEF SaveRight, PagerType, Sizes
<1>5. RecordBlocks(J, blocks) /\ \A b : b \in blocks <=> b \in Records(g, J) /\ b > sp.iOffset
  <2>1. Records(g, J) \subseteq 1 .. Len(J) /\ \A b \in Records(g, J) : J[b].kind = "rec"
    BY <1>2 DEF Records, RecordsIn
  <2>2. QED
    BY <1>3, <2>1 DEF RecordBlocks, Since
<1>6. Changed(main, n) /\ ReadFrom(main, J, blocks, n)
  BY <1>2, <1>4, <1>5, ChangesFacts
<1> HIDE DEF main
<1>7. /\ \A b : b \in DOMAIN main <=> b \in Records(g, J) /\ b > sp.iOffset /\ J[b].pgno <= n
      /\ \A b \in DOMAIN main : main[b].pgno = J[b].pgno /\ main[b].data = J[b].data /\ main[b].at = b
      /\ \A b \in DOMAIN main : b \in 1 .. szJ /\ main[b].pgno \in 1 .. n /\ main[b].data \in Page
  <2>1. \A b \in Records(g, J) : b \in 1 .. szJ
    BY <1>2 DEF Records, RecordsIn
  <2>2. QED
    BY <1>5, <1>6, <2>1 DEF ReadFrom, Changed
<1>8. \A i \in sub : /\ i \in Nat /\ i > 0 /\ i <= Len(g.sub) /\ szJ + i \notin DOMAIN main /\ (szJ + i) - szJ = i
                     /\ g.sub[i].pgno \in 1 .. n /\ g.sub[i].data \in Page
                     /\ g.sub[i].pgno \in DOMAIN g.cache
                     /\ g.sub[i].pgno \in g.pInJournal \/ g.sub[i].pgno > g.dbOrigSize
  <2> TAKE i \in sub
  <2>1. i \in Nat /\ i > 0 /\ i <= Len(g.sub) /\ i \in 1 .. Len(g.sub) /\ g.sub[i].pgno <= n
    BY <1>4
  <2>2. g.sub[i] \in Entry
    BY <1>4, <2>1
  <2>3. g.sub[i].pgno \in 1 .. MaxPages /\ g.sub[i].data \in Page
    BY <2>2 DEF Entry
  <2>4. szJ + i \notin 1 .. szJ /\ (szJ + i) - szJ = i
    BY <1>2, <2>1
  <2>5. QED
    BY <1>2, <1>4, <1>7, <2>1, <2>3, <2>4 DEF SubRight, Sizes
<1>9. /\ DOMAIN all = DOMAIN main \cup {szJ + i : i \in sub}
      /\ \A k \in DOMAIN main : all[k] = main[k]
      /\ \A i \in sub : all[szJ + i].pgno = g.sub[i].pgno /\ all[szJ + i].data = g.sub[i].data /\ all[szJ + i].at = 0
  <2>1. DOMAIN all = DOMAIN main \cup {szJ + i : i \in sub} /\ \A k \in DOMAIN main : all[k] = main[k]
    OBVIOUS
  <2>2. ASSUME NEW i \in sub
        PROVE  all[szJ + i].pgno = g.sub[i].pgno /\ all[szJ + i].data = g.sub[i].data /\ all[szJ + i].at = 0
    <3> DEFINE e == [pgno |-> g.sub[i].pgno, data |-> g.sub[i].data, at |-> 0]
    <3>1. szJ + i \in DOMAIN all /\ szJ + i \notin DOMAIN main /\ (szJ + i) - szJ = i
      BY <1>8
    <3> DEFINE j == szJ + i
    <3>2. all[j] = [pgno |-> g.sub[j - szJ].pgno, data |-> g.sub[j - szJ].data, at |-> 0]
      BY <3>1
    <3>3. all[j] = e
      BY <3>1, <3>2
    <3>4. QED
      BY <3>3
  <2>3. QED
    BY <2>1, <2>2
<1> HIDE DEF all, sub
<1>10. \A k \in DOMAIN all : \/ k \in DOMAIN main /\ all[k] = main[k]
                             \/ \E i \in sub : k = szJ + i /\ all[k].pgno = g.sub[i].pgno
                                               /\ all[k].data = g.sub[i].data /\ all[k].at = 0
  BY <1>9
<1>11. ChangeList(all)
  <2>1. szJ + Len(g.sub) \in Nat
    BY <1>2, <1>4
  <2>2. \A i \in sub : szJ + i \in 0 .. szJ + Len(g.sub)
    BY <1>2, <1>4, <1>8
  <2>3. \A k \in DOMAIN main : k \in 0 .. szJ + Len(g.sub)
    BY <1>2, <1>4, <1>7
  <2>4. DOMAIN all \subseteq 0 .. szJ + Len(g.sub)
    BY <1>9, <2>2, <2>3
  <2>5. QED
    BY <2>1, <2>4 DEF ChangeList
<1>12. /\ DOMAIN c \subseteq DOMAIN all /\ \A k \in DOMAIN c : c[k] = all[k]
       /\ OncePerPage(c)
       /\ \A j \in DOMAIN all : (\A m \in DOMAIN all : m < j => all[m].pgno # all[j].pgno) => j \in DOMAIN c
  BY <1>1, <1>11, FirstOfPageFacts
<1> HIDE DEF c
<1>13. \A k \in DOMAIN all : all[k].pgno \in 1 .. n /\ all[k].data \in Page /\ all[k].at \in Nat
  BY <1>7, <1>8, <1>10
<1>14. Changed(c, n)
  <2>1. ChangeList(c)
    BY <1>11, <1>12 DEF ChangeList
  <2>2. QED
    BY <1>12, <1>13, <2>1 DEF Changed
<1>15. FromJournal(g, J, c)
  BY <1>7, <1>8, <1>10, <1>12 DEF FromJournal
<1>16. HaveOne(g, J, sp, c)
  <2>1. ASSUME NEW b \in MainOne(g, J, sp) PROVE \E k \in DOMAIN c : c[k].pgno = 1 /\ c[k].data = J[b].data
    <3>1. b \in Records(g, J) /\ b > sp.iOffset /\ J[b].pgno = 1
      BY DEF MainOne
    <3>2. b \in DOMAIN main /\ b \in DOMAIN all /\ all[b].pgno = 1 /\ all[b].data = J[b].data /\ b \in 1 .. szJ
      BY <1>4, <1>7, <1>9, <3>1
    <3>3. ASSUME NEW m \in DOMAIN all, m < b PROVE all[m].pgno # 1
      <4>1. CASE m \in DOMAIN main /\ all[m] = main[m]
        <5>1. m \in Records(g, J) /\ all[m].pgno = J[m].pgno /\ m # b
          BY <1>2, <1>7, <3>2, <3>3, <4>1
        <5>2. QED
          BY <1>2, <3>1, <5>1 DEF RecordsRight
      <4>2. CASE \E i \in sub : m = szJ + i
        BY <1>2, <1>8, <3>2, <3>3, <4>2
      <4>3. QED
        BY <1>10, <4>1, <4>2
    <3>4. b \in DOMAIN c
      BY <1>12, <3>2, <3>3
    <3>5. QED
      BY <1>12, <3>2, <3>4
  <2>2. ASSUME MainOne(g, J, sp) = {} PROVE \A b \in DOMAIN main : main[b].pgno # 1
    BY <1>7, <2>2 DEF MainOne
  <2>3. ASSUME MainOne(g, J, sp) = {}, NEW i \in SubOne(g, sp), \A m \in SubOne(g, sp) : i <= m
        PROVE  \E k \in DOMAIN c : c[k].pgno = 1 /\ c[k].data = g.sub[i].data
    <3>1. i \in sub
      BY <1>4 DEF SubOne, sub
    <3>2. g.sub[i].pgno = 1 /\ szJ + i \in DOMAIN all /\ all[szJ + i].pgno = 1 /\ all[szJ + i].data = g.sub[i].data
      BY <1>9, <3>1 DEF SubOne
    <3>3. ASSUME NEW m \in DOMAIN all, m < szJ + i PROVE all[m].pgno # 1
      <4>1. CASE m \in DOMAIN main /\ all[m] = main[m]
        BY <2>2, <2>3, <4>1
      <4>2. CASE \E j \in sub : m = szJ + j /\ all[m].pgno = g.sub[j].pgno
        <5>1. PICK j \in sub : m = szJ + j /\ all[m].pgno = g.sub[j].pgno
          BY <4>2
        <5>2. j < i
          BY <1>2, <1>8, <3>1, <3>3, <5>1
        <5>3. j \in SubOne(g, sp) => FALSE
          BY <1>8, <2>3, <3>1, <5>2
        <5>4. j \in sp.iSubRec + 1 .. Len(g.sub)
          BY DEF sub
        <5>5. QED
          BY <5>1, <5>3, <5>4 DEF SubOne
      <4>3. QED
        BY <1>10, <4>1, <4>2
    <3>4. szJ + i \in DOMAIN c
      BY <1>12, <3>2, <3>3
    <3>5. QED
      BY <1>12, <3>2, <3>4
  <2>4. ASSUME MainOne(g, J, sp) = {}, SubOne(g, sp) = {}, NEW k \in DOMAIN c PROVE c[k].pgno # 1
    <3>1. CASE k \in DOMAIN main /\ all[k] = main[k]
      BY <1>12, <2>2, <2>4, <3>1
    <3>2. CASE \E i \in sub : all[k].pgno = g.sub[i].pgno
      <4>1. PICK i \in sub : all[k].pgno = g.sub[i].pgno
        BY <3>2
      <4>2. i \in sp.iSubRec + 1 .. Len(g.sub)
        BY DEF sub
      <4>3. QED
        BY <1>12, <2>4, <4>1, <4>2 DEF SubOne
    <3>3. QED
      BY <1>10, <1>12, <3>1, <3>2
  <2>5. QED
    BY <2>1, <2>3, <2>4 DEF HaveOne
<1>17. QED
  BY <1>12, <1>13, <1>14, <1>15, <1>16 DEF c, n

\* After a roll back to a savepoint the pager is ready for the next statement.
LEMMA UndoneReady ==
    ASSUME Sizes, NEW g, NEW J, NEW f, NEW safe, NEW v, Ready(g, J, f, safe, v),
           NEW i \in 1 .. Len(g.aSavepoint), NEW sp, sp = g.aSavepoint[i],
           NEW c, FromJournal(g, J, c), HaveOne(g, J, sp, c),
           NEW w, NEW s, Undoes(g, J, f, sp.nOrig, c, w, s),
           NEW x, SameCore(w, x), DOMAIN x = Fields, x.cache = w.cache, x.dbSize = w.dbSize, x.dbFileSize = w.dbFileSize,
           x.sub = w.sub, x.aSavepoint = SubSeq(g.aSavepoint, 1, i)
    PROVE  Ready(x, J, s, safe, v) /\ PagesOf(x, s) <= x.dbSize
<1>1. /\ PagerType(g) /\ JournalFile(J, v) /\ DataFile(f) /\ g.nonce < v /\ g.eState \in {"CACHEMOD", "DBMOD"}
      /\ g.header # 0 /\ g.journalOff = LastOf(g) /\ Layout(g, J) /\ ~J[g.journalHdr + 1].magic /\ J[g.journalHdr + 1].n = 0
      /\ RecordsRight(g, J) /\ SyncedRight(g, J, safe) /\ CacheRight(g, J, f) /\ SavesRight(g, J, f)
  BY DEF Ready
<1>2. /\ SameCore(g, w) /\ PagerType(w) /\ DataFile(s) /\ w.dbSize = sp.nOrig /\ w.sub = g.sub /\ w.aSavepoint = g.aSavepoint
      /\ DOMAIN w.cache = DOMAIN g.cache /\ CacheRight(w, J, s) /\ (OwnRecords => ContentRight(w, J, s))
      /\ \A k \in DOMAIN c : c[k].pgno = 1 => PagesOf(w, s) = c[k].data.n
      /\ sp.nOrig > 0 /\ (\A k \in DOMAIN c : c[k].pgno # 1) => PagesOf(w, s) = PagesOf(g, f)
  BY DEF Undoes
<1>3. SameCore(g, x)
  BY <1>2 DEF SameCore
<1>4. /\ g.aSavepoint \in Seq(Save) /\ Len(g.aSavepoint) \in Nat /\ i \in 0 .. Len(g.aSavepoint) /\ i \in Nat
  BY <1>1 DEF PagerType
<1>5. /\ x.aSavepoint \in Seq(Save) /\ Len(x.aSavepoint) = i /\ \A j \in 1 .. i : x.aSavepoint[j] = g.aSavepoint[j]
  BY <1>4, FirstSaves
<1>6. \A j \in 1 .. i : j \in 1 .. Len(g.aSavepoint) /\ g.aSavepoint[j] \in Save
  BY <1>4
<1>7. /\ LastOf(x) = LastOf(g) /\ Records(x, J) = Records(g, J) /\ LastOf(w) = LastOf(g) /\ Records(w, J) = Records(g, J)
      /\ Layout(x, J) /\ RecordsRight(x, J) /\ SyncedRight(x, J, safe)
  BY <1>1, <1>2, <1>3, SameCoreFacts
<1>8. PagesOf(x, s) = PagesOf(w, s)
  BY DEF PagesOf
<1>9. PagerType(x)
  <2>1. \A j \in 1 .. Len(x.aSavepoint) : x.aSavepoint[j].iSubRec <= Len(x.sub)
    BY <1>1, <1>2, <1>5, <1>6 DEF PagerType
  <2>2. QED
    BY <1>2, <1>5, <2>1 DEF PagerType, SameCore
<1>10. CacheRight(x, J, s)
  BY <1>2, <1>7 DEF CacheRight, SameCore
<1>11. OwnRecords => ContentRight(x, J, s)
  BY <1>2, <1>7 DEF ContentRight, SameCore
<1>12. SubRight(x)
  BY <1>1, <1>2, <1>3 DEF SavesRight, SubRight, SameCore
<1>13. /\ sp.nOrig > 0 /\ sp.nOrig \in Nat /\ FirstOne(g, J, f, sp) /\ SaveRight(g, J, f, sp)
  <2>1. sp \in Save /\ SaveRight(g, J, f, sp)
    BY <1>1, <1>4 DEF SavesRight
  <2>2. QED
    BY <2>1 DEF SaveRight, Save
<1>14. /\ \A b \in MainOne(g, J, sp) : PagesOf(x, s) = J[b].data.n
       /\ MainOne(g, J, sp) = {} => \A k \in SubOne(g, sp) : (\A m \in SubOne(g, sp) : k <= m) => PagesOf(x, s) = g.sub[k].data.n
       /\ MainOne(g, J, sp) = {} /\ SubOne(g, sp) = {} => PagesOf(x, s) = PagesOf(g, f)
  BY <1>2, <1>8, <1>13 DEF HaveOne
<1>15. PagesOf(x, s) <= sp.nOrig
  BY <1>13, <1>14 DEF FirstOne
<1>16. x.dbOrigSize > 0 /\ 1 \notin x.pInJournal => PagesOf(x, s) <= x.dbOrigSize
  <2> HAVE x.dbOrigSize > 0 /\ 1 \notin x.pInJournal
  <2>1. g.dbOrigSize > 0 /\ 1 \notin g.pInJournal /\ g.dbOrigSize \in Nat /\ x.dbOrigSize = g.dbOrigSize
    BY <1>1, <1>3 DEF SameCore, PagerType
  <2>2. \A k \in DOMAIN c : c[k].pgno # 1
    BY <1>1, <2>1 DEF FromJournal, RecordsRight
  <2>3. QED
    BY <1>1, <1>2, <1>8, <1>13, <2>1, <2>2 DEF SavesRight
<1>17. \A a, b \in 1 .. Len(g.aSavepoint) :
           a <= b => /\ g.aSavepoint[a].nOrig <= g.aSavepoint[b].nOrig /\ g.aSavepoint[a].iOffset <= g.aSavepoint[b].iOffset
                     /\ g.aSavepoint[a].iSubRec <= g.aSavepoint[b].iSubRec
  BY <1>1 DEF SavesRight, Nested
<1>18. ASSUME NEW j \in 1 .. i PROVE SaveRight(x, J, s, x.aSavepoint[j])
  <2> DEFINE q == g.aSavepoint[j]
  <2>1. /\ q \in Save /\ x.aSavepoint[j] = q /\ SaveRight(g, J, f, q) /\ q.nOrig <= sp.nOrig /\ q.iOffset <= sp.iOffset
        /\ q.iSubRec <= sp.iSubRec /\ sp \in Save
    BY <1>1, <1>4, <1>5, <1>6, <1>17 DEF SavesRight
  <2> HIDE DEF q
  <2>2. /\ q.iOffset \in Nat /\ sp.iOffset \in Nat /\ q.iSubRec \in Nat /\ sp.iSubRec \in Nat
        /\ LastOf(g) \in Nat /\ Len(g.sub) \in Nat
    <3>1. q.iOffset \in Nat /\ sp.iOffset \in Nat /\ q.iSubRec \in Nat /\ sp.iSubRec \in Nat
      BY <2>1 DEF Save
    <3>2. LastOf(g) \in Nat
      BY <1>1 DEF PagerType, LastOf
    <3>3. Len(g.sub) \in Nat
      BY <1>1 DEF PagerType
    <3>4. QED
      BY <3>1, <3>2, <3>3
  <2>3. MainOne(x, J, q) = MainOne(g, J, q) /\ SubOne(x, q) = SubOne(g, q)
    BY <1>2, <1>7 DEF MainOne, SubOne
  <2>4. MainOne(g, J, q) = {} => MainOne(g, J, sp) = {}
    <3>1. \A b \in Records(g, J) : b \in Nat
      BY <2>2 DEF Records, RecordsIn
    <3>2. \A b \in MainOne(g, J, sp) : b \in MainOne(g, J, q)
      BY <2>1, <2>2, <3>1 DEF MainOne
    <3>3. QED
      BY <3>2
  <2>5. SubOne(g, q) = {} => SubOne(g, sp) = {}
    <3>1. \A b \in SubOne(g, sp) : b \in SubOne(g, q)
      BY <2>1, <2>2 DEF SubOne
    <3>2. QED
      BY <3>1
  <2>6. FirstOne(x, J, s, q)
    <3>1. FirstOne(g, J, f, q)
      BY <2>1 DEF SaveRight
    <3>2. CASE \E b \in MainOne(g, J, q) : J[b].data.n <= q.nOrig
      BY <2>3, <3>2 DEF FirstOne
    <3>3. CASE /\ MainOne(g, J, q) = {}
               /\ \E k \in SubOne(g, q) : (\A m \in SubOne(g, q) : k <= m) /\ g.sub[k].data.n <= q.nOrig
      BY <1>2, <2>3, <3>3 DEF FirstOne
    <3>4. CASE /\ MainOne(g, J, q) = {} /\ SubOne(g, q) = {} /\ 1 \notin q.inSavepoint /\ PagesOf(g, f) <= q.nOrig
      <4>1. PagesOf(x, s) = PagesOf(g, f)
        BY <1>14, <2>4, <2>5, <3>4
      <4>2. QED
        BY <2>3, <3>4, <4>1 DEF FirstOne
    <3>5. QED
      BY <3>1, <3>2, <3>3, <3>4 DEF FirstOne
  <2>7. x.dbOrigSize = g.dbOrigSize /\ x.journalHdr = g.journalHdr /\ x.dbSize = sp.nOrig
    BY <1>2, <1>3 DEF SameCore
  <2>8. QED
    BY <1>7, <2>1, <2>6, <2>7 DEF SaveRight
<1>19. Nested(x.aSavepoint)
  BY <1>5, <1>6, <1>17 DEF Nested
<1>20. SavesRight(x, J, s)
  BY <1>5, <1>12, <1>16, <1>18, <1>19 DEF SavesRight
<1>21. Ready(x, J, s, safe, v)
  BY <1>1, <1>2, <1>3, <1>7, <1>9, <1>10, <1>11, <1>20 DEF Ready, SameCore
<1>22. QED
  BY <1>2, <1>15, <1>21

\* A roll back to a savepoint plays its changes.
LEMMA UndoneIs ==
    ASSUME NEW sp
    PROVE  /\ \A c : Undone(sp, c) = Played(Resized(pager, sp.nOrig), db.vis, c)
           /\ UndoneAll(sp) = Undone(sp, SavepointChanges(pager, jrnl.vis, sp))
<1>1. \A c : Undone(sp, c) = Played(Resized(pager, sp.nOrig), db.vis, c)
  BY DEF Undone, Resized
<1>2. UndoneAll(sp) = The({Undone(sp, c) : c \in {SavepointChanges(pager, jrnl.vis, sp)}})
  BY DEF UndoneAll
<1>3. {Undone(sp, c) : c \in {SavepointChanges(pager, jrnl.vis, sp)}} = {Undone(sp, SavepointChanges(pager, jrnl.vis, sp))}
  OBVIOUS
<1>4. QED
  BY <1>1, <1>2, <1>3, TheOne

\* Before the first write of a transaction there is nothing to undo.
LEMMA NothingRead ==
    ASSUME NEW g, Begun(g, jrnl.vis, db.vis), NEW sp, sp.iHdrOffset = 0, sp.iOffset = 1, sp.iSubRec = 0
    PROVE  DOMAIN SavepointChanges(g, jrnl.vis, sp) = {}
<1> DEFINE J == jrnl.vis
           blocks == (1 + 1 .. 0) \cup Blocks(J, 0 + 1, 0, InProgress(g), FALSE)
           main == Changes(J, blocks, sp.nOrig)
           sub == {i \in 0 + 1 .. Len(g.sub) : g.sub[i].pgno <= sp.nOrig}
           all == [k \in DOMAIN main \cup {0 + i : i \in sub} |->
                      IF k \in DOMAIN main THEN main[k]
                      ELSE [pgno |-> g.sub[k - 0].pgno, data |-> g.sub[k - 0].data, at |-> 0]]
<1>1. g.journalOff = 0 /\ g.sub = <<>> /\ Len(g.sub) = 0
  BY DEF Begun
<1>2. blocks = {}
  BY DEF Blocks
<1>3. sub = {}
  BY <1>1
<1>4. DOMAIN main = {}
  BY <1>2 DEF Changes
<1>5. DOMAIN all = {}
  BY <1>3, <1>4
<1>6. SavepointChanges(g, J, sp) = IF g.jfd THEN The({FirstOfPage(x) : x \in {all}}) ELSE <<>>
  BY <1>1 DEF SavepointChanges
<1> HIDE DEF all
<1>7. {FirstOfPage(x) : x \in {all}} = {FirstOfPage(all)}
  OBVIOUS
<1>8. The({FirstOfPage(all)}) = FirstOfPage(all)
  BY TheOne
<1>9. DOMAIN FirstOfPage(all) = {}
  BY <1>5 DEF FirstOfPage
<1>10. DOMAIN <<>> = {}
  OBVIOUS
<1>11. QED
  BY <1>6, <1>7, <1>8, <1>9, <1>10

\* Before the first write there is nothing to undo.
LEMMA NothingUndone ==
    ASSUME Sizes, NEW g, PagerType(g), NEW J, NEW f, DataFile(f), Begun(g, J, f), NEW c, DOMAIN c = {}
    PROVE  LET u == Played(Resized(g, g.dbSize), f, c)
           IN  /\ DOMAIN u.g = Fields /\ SameCore(g, u.g) /\ u.g.dbSize = g.dbSize /\ u.g.sub = g.sub
               /\ u.g.aSavepoint = g.aSavepoint /\ u.g.dbFileSize = g.dbFileSize
               /\ CacheType(u.g.cache) /\ DOMAIN u.g.cache = DOMAIN g.cache
               /\ \A p \in DOMAIN g.cache : u.g.cache[p] = g.cache[p]
               /\ DataFile(u.f) /\ Len(u.f) = Len(f) /\ \A p \in 1 .. Len(f) : u.f[p] = f[p]
<1> DEFINE n == g.dbSize
           u == Played(Resized(g, n), f, c)
           S == StoredOf(g, c)
           l == Latest(c, S)
           load == LoadedBy(g, c)
           w == u.g
           s == u.f
           r == Restored(g.cache, Pages(c), load)
<1>1. DOMAIN g = Fields /\ CacheType(g.cache) /\ n \in Nat /\ n <= MaxPages /\ MaxPages \in Nat
      /\ g.dbFileSize = Len(f) /\ Len(f) \in Nat
  BY DEF PagerType, Sizes, Begun, DataFile, Numbered
<1>2. /\ s = Stored(f, l) /\ DOMAIN w = Fields /\ SameCore(g, w) /\ w.dbSize = n /\ w.sub = g.sub
      /\ w.aSavepoint = g.aSavepoint /\ w.cache = r
      /\ w.dbFileSize = Bigger(g.dbFileSize, IF l = <<>> THEN 0 ELSE Len(s))
  <2>1. DOMAIN g = Fields
    BY <1>1
  <2> HIDE DEF n
  <2>2. QED
    BY <2>1, PlayedIs
<1>3. S = {}
  BY DEF StoredOf
<1>4. load = {}
  BY DEF LoadedBy
<1>5. Changed(c, n)
  BY DEF Changed, ChangeList
<1>6. /\ DataFile(s) /\ Len(s) = Len(f) /\ \A p \in 1 .. Len(f) : s[p] = f[p]
  <2>1. S \subseteq DOMAIN c
    BY <1>3
  <2> HIDE DEF S, n
  <2>2. QED
    BY <1>1, <1>2, <1>3, <1>5, <2>1, StoredBeyond
<1>7. CacheType(r) /\ DOMAIN r = DOMAIN g.cache /\ \A p \in DOMAIN g.cache : r[p] = g.cache[p]
  <2>1. Loads(load, c, g.cache)
    BY <1>4 DEF Loads
  <2>2. RestoredFrom(g.cache, c, load, r)
    <3> HIDE DEF load, n
    <3>1. QED
      BY <1>1, <1>5, <2>1, RestoredChanges
  <2> HIDE DEF load, r
  <2>3. QED
    BY <1>4, <2>2 DEF RestoredFrom
<1> HIDE DEF u, S, l, load, w, s, r
<1>8. w.dbFileSize = g.dbFileSize
  BY <1>1, <1>2, <1>6 DEF Bigger
<1>9. QED
  BY <1>2, <1>6, <1>7, <1>8 DEF u, w, s, n

\* A roll back to a savepoint keeps the invariant,
LEMMA RollbackToRight ==
    ASSUME WholeInv, RollbackTo
    PROVE  WholeInv'
<1> DEFINE g == pager
           J == jrnl.vis
           f == db.vis
<1>1. /\ pc = Idle /\ pc' = pc /\ setting' = setting /\ gone' = gone /\ faults' = faults /\ ver' = ver /\ jrnl' = jrnl
      /\ g.eState \in Writer
  BY DEF RollbackTo
<1>2. PICK i \in DOMAIN g.aSavepoint :
          LET s == UndoneAll(g.aSavepoint[i])
          IN  pager' = [s.g EXCEPT !.aSavepoint = SubSeq(@, 1, i)] /\ db' = Seen(db, s.f)
  BY DEF RollbackTo
<1>3. /\ JournalFile(J, ver) /\ JournalFile(jrnl.safe, ver) /\ JournalFile(gone.vis, ver) /\ JournalFile(gone.safe, ver)
      /\ pager.nonce <= ver /\ DataFile(f) /\ DataFile(db.safe) /\ setting \in Settings /\ DOMAIN pc = {"at", "task", "page"}
  BY DEF WholeInv, Basics
<1>4. Sizes /\ ver \in Nat /\ ver <= MaxVersion /\ faults \in Nat /\ DOMAIN g = Fields /\ PagerType(g)
  BY Bounds
<1> DEFINE sp == g.aSavepoint[i]
           c == SavepointChanges(g, J, sp)
           u == Played(Resized(g, sp.nOrig), f, c)
           w == u.g
           s == u.f
           x == [w EXCEPT !.aSavepoint = SubSeq(w.aSavepoint, 1, i)]
<1>5. UndoneAll(sp) = u
  BY UndoneIs
<1> HIDE DEF u
<1>6. pager' = x /\ db'.vis = s /\ db'.safe = db.safe
  BY <1>2, <1>5 DEF Seen
<1>7. /\ g.aSavepoint \in Seq(Save) /\ i \in 1 .. Len(g.aSavepoint) /\ sp \in Save /\ sp.iSubRec <= Len(g.sub)
      /\ i \in 0 .. Len(g.aSavepoint)
  BY <1>2, <1>4 DEF PagerType
<1>8. CASE g.eState \in {"CACHEMOD", "DBMOD"}
  <2>1. Ready(g, J, f, jrnl.safe, ver + 1) /\ PagesOf(g, f) <= g.dbSize /\ g.dbSize > 0
    BY <1>1, <1>8, ReadyNow
  <2>2. SaveRight(g, J, f, sp)
    BY <1>7, <2>1 DEF Ready, SavesRight
  <2>3. Changed(c, sp.nOrig) /\ OncePerPage(c) /\ FromJournal(g, J, c) /\ HaveOne(g, J, sp, c)
    <3> HIDE DEF sp
    <3>1. QED
      BY <1>4, <1>7, <2>1, <2>2, SavepointChangesFacts
  <2> HIDE DEF c
  <2>4. sp.nOrig \in Nat /\ g.dbOrigSize <= sp.nOrig /\ sp.nOrig <= g.dbSize /\ sp.nOrig > 0
    BY <1>7, <2>2 DEF SaveRight, Save
  <2>5. Undoes(g, J, f, sp.nOrig, c, w, s)
    <3> DEFINE n == sp.nOrig
    <3>1. u = Played(Resized(g, n), f, c)
      BY DEF u
    <3> HIDE DEF n, sp
    <3>2. Undoes(g, J, f, n, c, w, s)
      BY <1>4, <2>1, <2>3, <2>4, <3>1, PlayedRight DEF n
    <3>3. QED
      BY <3>2 DEF n
  <2> HIDE DEF w, s
  <2>6. DOMAIN w = Fields /\ SameCore(g, w) /\ w.aSavepoint = g.aSavepoint /\ w.dbSize = sp.nOrig
    BY <2>5 DEF Undoes
  <2>7. /\ DOMAIN x = Fields /\ SameCore(w, x) /\ x.cache = w.cache /\ x.dbSize = w.dbSize /\ x.dbFileSize = w.dbFileSize
        /\ x.sub = w.sub /\ x.aSavepoint = SubSeq(g.aSavepoint, 1, i)
    BY <2>6 DEF Fields, SameCore
  <2> HIDE DEF x
  <2>8. Ready(x, J, s, jrnl.safe, ver + 1) /\ PagesOf(x, s) <= x.dbSize
    <3> DEFINE q == sp
    <3>1. q = g.aSavepoint[i]
      OBVIOUS
    <3> HIDE DEF q, sp
    <3>2. FromJournal(g, J, c) /\ HaveOne(g, J, q, c) /\ Undoes(g, J, f, q.nOrig, c, w, s)
      BY <2>3, <2>5 DEF q
    <3>3. QED
      BY <1>4, <1>7, <2>1, <2>7, <3>1, <3>2, UndoneReady
  <2>9. x.nonce = g.nonce /\ x.dbSize > 0
    BY <2>4, <2>6, <2>7 DEF SameCore
  <2>10. QED
    BY <1>1, <1>6, <2>8, <2>9, QuietRight
<1>9. CASE g.eState = "LOCKED"
  <2>1. g.dbSize > 0 /\ Begun(g, J, f)
    BY <1>9 DEF WholeInv, LockedRight
  <2>2. sp.nOrig = g.dbSize /\ sp.iHdrOffset = 0 /\ sp.iOffset = 1 /\ sp.iSubRec = 0
    BY <1>7, <2>1 DEF Begun, SavesFresh
  <2>3. DOMAIN c = {}
    BY <2>1, <2>2, NothingRead
  <2> HIDE DEF c
  <2>4. /\ DOMAIN w = Fields /\ SameCore(g, w) /\ w.dbSize = g.dbSize /\ w.sub = g.sub
        /\ w.aSavepoint = g.aSavepoint /\ w.dbFileSize = g.dbFileSize
        /\ CacheType(w.cache) /\ DOMAIN w.cache = DOMAIN g.cache
        /\ \A p \in DOMAIN g.cache : w.cache[p] = g.cache[p]
        /\ DataFile(s) /\ Len(s) = Len(f) /\ \A p \in 1 .. Len(f) : s[p] = f[p]
    <3>1. u = Played(Resized(g, g.dbSize), f, c)
      BY <2>2 DEF u
    <3>2. QED
      BY <1>3, <1>4, <2>1, <2>3, <3>1, NothingUndone
  <2> HIDE DEF w, s
  <2>5. /\ DOMAIN x = Fields /\ SameCore(g, x) /\ x.cache = w.cache /\ x.dbSize = g.dbSize /\ x.dbFileSize = g.dbFileSize
        /\ x.sub = g.sub /\ x.aSavepoint = SubSeq(g.aSavepoint, 1, i)
    BY <2>4 DEF Fields, SameCore
  <2> HIDE DEF x
  <2>6. /\ x.aSavepoint \in Seq(Save) /\ Len(x.aSavepoint) = i /\ \A j \in 1 .. i : x.aSavepoint[j] = g.aSavepoint[j]
    BY <1>7, <2>5, FirstSaves
  <2>7. PagerType(x)
    <3>1. \A j \in 1 .. i : j \in 1 .. Len(g.aSavepoint)
      BY <1>7
    <3>2. \A j \in 1 .. Len(x.aSavepoint) : x.aSavepoint[j].iSubRec <= Len(x.sub)
      BY <1>4, <2>5, <2>6, <3>1 DEF PagerType
    <3>3. QED
      BY <1>4, <2>4, <2>5, <2>6, <3>2 DEF PagerType, SameCore
  <2>8. Begun(x, J, s)
    <3>1. SavesFresh(x)
      <4>1. \A j \in 1 .. i : j \in 1 .. Len(g.aSavepoint)
        BY <1>7
      <4>2. QED
        BY <2>1, <2>5, <2>6, <4>1 DEF Begun, SavesFresh
    <3>2. \A p \in DOMAIN g.cache : p \in 1 .. Len(f)
      BY <2>1 DEF Begun
    <3>3. Reliable(x, s)
      BY <2>1, <2>4, <2>5, <3>2 DEF Begun, Reliable
    <3>4. PagesOf(x, s) <= x.dbSize
      <4>1. PagesOf(x, s) = PagesOf(g, f)
        <5>1. 1 \in 1 .. Len(f) /\ Len(f) = g.dbSize /\ g.dbSize \in Nat
          BY <1>4, <2>1 DEF Begun, PagerType
        <5>2. QED
          BY <2>4, <2>5, <5>1 DEF PagesOf, Get
      <4>2. QED
        BY <2>1, <2>5, <4>1 DEF Begun
    <3>5. QED
      BY <2>1, <2>4, <2>5, <3>1, <3>3, <3>4 DEF Begun, SameCore
  <2>9. Basics'
    <3>1. pager'.nonce <= ver'
      BY <1>1, <1>3, <1>6, <2>5 DEF SameCore
    <3>2. QED
      BY <1>1, <1>3, <1>4, <1>6, <2>4, <2>7, <3>1, BasicsRight
  <2>10. x.eState = "LOCKED"
    BY <1>9, <2>5 DEF SameCore
  <2>11. OwnRecords' => OwnRecords
    BY <1>1, <1>4, CarriedOwn
  <2>13. LockedRight'
    BY <1>1, <1>6, <2>1, <2>5, <2>8, <2>11, CarriedContent DEF LockedRight
  <2>14. Flow' /\ OpenRight' /\ ReaderRight' /\ WriterRight'
    BY <1>1, <1>6, <2>10 DEF Flow, OpenRight, ReaderRight, WriterRight, Opened3
  <2>15. QED
    BY <2>9, <2>13, <2>14 DEF WholeInv
<1>10. QED
  <2>1. g.eState # "FINISHED"
    BY <1>1 DEF WholeInv, Flow, Idle
  <2>2. QED
    BY <1>1, <1>8, <1>9, <2>1 DEF Writer

\* Where the journal ends and which savepoints there are does not matter to a roll back.
LEMMA OtherEnd ==
    ASSUME NEW w, PagerType(w), NEW x, DOMAIN x = Fields, x.journalOff \in Nat, x.journalOff > 0,
           x.eState = w.eState, x.jfd = w.jfd, x.dbOrigSize = w.dbOrigSize, x.nRec = w.nRec, x.journalHdr = w.journalHdr,
           x.header = w.header, x.nonce = w.nonce, x.pInJournal = w.pInJournal, x.cache = w.cache, x.dbSize = w.dbSize,
           x.dbFileSize = w.dbFileSize, x.sub = w.sub,
           NEW i \in 0 .. Len(w.aSavepoint), x.aSavepoint = SubSeq(w.aSavepoint, 1, i)
    PROVE  /\ PagerType(x) /\ LastOf(x) = LastOf(w)
           /\ \A J : Layout(w, J) => Layout(x, J)
           /\ \A J : RecordsRight(w, J) => RecordsRight(x, J)
           /\ \A J, safe : SyncedRight(w, J, safe) => SyncedRight(x, J, safe)
           /\ \A J, f : CacheRight(w, J, f) => CacheRight(x, J, f)
           /\ \A J, f : ContentRight(w, J, f) => ContentRight(x, J, f)
<1>1. LastOf(x) = LastOf(w)
  BY DEF LastOf
<1>2. \A J : Records(x, J) = Records(w, J)
  BY <1>1 DEF Records
<1>3. \A J : InProgressRight(w, J) => InProgressRight(x, J)
  BY <1>1 DEF InProgressRight
<1>4. \A J : Layout(w, J) => Layout(x, J)
  BY <1>1, <1>3 DEF Layout
<1>5. \A J : RecordsRight(w, J) => RecordsRight(x, J)
  BY <1>2 DEF RecordsRight
<1>6. \A J, safe : SyncedRight(w, J, safe) => SyncedRight(x, J, safe)
  BY DEF SyncedRight
<1>7. \A J, f : CacheRight(w, J, f) => CacheRight(x, J, f)
  BY <1>2 DEF CacheRight
<1>8. \A J, f : ContentRight(w, J, f) => ContentRight(x, J, f)
  BY <1>2 DEF ContentRight
<1>9. PagerType(x)
  <2>1. /\ w.aSavepoint \in Seq(Save) /\ \A j \in 1 .. Len(w.aSavepoint) : w.aSavepoint[j].iSubRec <= Len(w.sub)
    BY DEF PagerType
  <2>2. /\ x.aSavepoint \in Seq(Save) /\ Len(x.aSavepoint) = i /\ \A j \in 1 .. i : x.aSavepoint[j] = w.aSavepoint[j]
    BY <2>1, FirstSaves
  <2>3. \A j \in 1 .. i : j \in 1 .. Len(w.aSavepoint)
    BY <2>1
  <2>4. \A j \in 1 .. Len(x.aSavepoint) : x.aSavepoint[j].iSubRec <= Len(x.sub)
    BY <2>1, <2>2, <2>3
  <2>5. QED
    BY <2>2, <2>4 DEF PagerType
<1>10. QED
  BY <1>1, <1>4, <1>5, <1>6, <1>7, <1>8, <1>9

\* also when it fails.
LEMMA RollbackToFailsRight ==
    ASSUME WholeInv, RollbackToFails
    PROVE  WholeInv'
<1> DEFINE g == pager
           J == jrnl.vis
           f == db.vis
<1>1. /\ pc = Idle /\ pc' = At("mustRollBack", "none") /\ setting' = setting /\ gone' = gone /\ ver' = ver /\ jrnl' = jrnl
      /\ faults' = faults + 1 /\ g.eState \in Writer
  BY DEF RollbackToFails, MayFail
<1>2. PICK i \in DOMAIN g.aSavepoint :
          LET sp == g.aSavepoint[i]
              all == SavepointChanges(g, J, sp)
          IN  \E n \in DOMAIN all :
                  /\ pager' = [Undone(sp, Before(all, n)).g EXCEPT !.aSavepoint = SubSeq(@, 1, i),
                                   !.journalOff = IF all[n].at > 0 THEN all[n].at ELSE @]
                  /\ db' = Seen(db, Undone(sp, Before(all, n)).f)
  BY DEF RollbackToFails
<1> DEFINE sp == g.aSavepoint[i]
           all == SavepointChanges(g, J, sp)
<1>3. PICK n \in DOMAIN all :
          /\ pager' = [Undone(sp, Before(all, n)).g EXCEPT !.aSavepoint = SubSeq(@, 1, i),
                           !.journalOff = IF all[n].at > 0 THEN all[n].at ELSE @]
          /\ db' = Seen(db, Undone(sp, Before(all, n)).f)
  BY <1>2
<1>4. /\ JournalFile(J, ver) /\ JournalFile(jrnl.safe, ver) /\ DataFile(f) /\ g.nonce <= ver
  BY DEF WholeInv, Basics
<1>5. Sizes /\ ver \in Nat /\ ver <= MaxVersion /\ faults \in Nat /\ DOMAIN g = Fields /\ PagerType(g)
  BY Bounds
<1> DEFINE c == Before(all, n)
           u == Played(Resized(g, sp.nOrig), f, c)
           w == u.g
           s == u.f
           off == IF all[n].at > 0 THEN all[n].at ELSE w.journalOff
           x == [w EXCEPT !.aSavepoint = SubSeq(w.aSavepoint, 1, i), !.journalOff = off]
<1>6. Undone(sp, c) = u
  BY UndoneIs
<1> HIDE DEF u
<1>7. pager' = x /\ db'.vis = s /\ db'.safe = db.safe
  BY <1>3, <1>6 DEF Seen
<1>8. /\ g.aSavepoint \in Seq(Save) /\ i \in 1 .. Len(g.aSavepoint) /\ sp \in Save /\ sp.iSubRec <= Len(g.sub)
      /\ i \in 0 .. Len(g.aSavepoint)
  BY <1>2, <1>5 DEF PagerType
<1>9. g.eState # "LOCKED"
  <2>1. ASSUME g.eState = "LOCKED" PROVE FALSE
    <3>1. g.dbSize > 0 /\ Begun(g, J, f)
      BY <2>1 DEF WholeInv, LockedRight
    <3>2. sp.iHdrOffset = 0 /\ sp.iOffset = 1 /\ sp.iSubRec = 0
      BY <1>8, <3>1 DEF Begun, SavesFresh
    <3>3. DOMAIN all = {}
      BY <3>1, <3>2, NothingRead
    <3>4. QED
      BY <3>3
  <2>2. QED
    BY <2>1
<1>10. g.eState \in {"CACHEMOD", "DBMOD"}
  <2>1. g.eState # "FINISHED"
    BY <1>1 DEF WholeInv, Flow, Idle
  <2>2. QED
    BY <1>1, <1>9, <2>1 DEF Writer
<1>11. Ready(g, J, f, jrnl.safe, ver + 1) /\ PagesOf(g, f) <= g.dbSize /\ g.dbSize > 0
  BY <1>1, <1>10, ReadyNow
<1>12. SaveRight(g, J, f, sp)
  BY <1>8, <1>11 DEF Ready, SavesRight
<1>13. Changed(all, sp.nOrig) /\ OncePerPage(all) /\ FromJournal(g, J, all) /\ \A k \in DOMAIN all : all[k].at \in Nat
  <2> HIDE DEF sp
  <2>1. QED
    BY <1>5, <1>8, <1>11, <1>12, SavepointChangesFacts
<1> HIDE DEF all
<1>14. sp.nOrig \in Nat /\ g.dbOrigSize <= sp.nOrig /\ sp.nOrig <= g.dbSize /\ sp.nOrig > 0
  BY <1>8, <1>12 DEF SaveRight, Save
<1>15. DOMAIN c \subseteq DOMAIN all /\ \A k \in DOMAIN c : c[k] = all[k]
  BY BeforeFacts
<1> HIDE DEF c
<1>16. Changed(c, sp.nOrig) /\ OncePerPage(c) /\ FromJournal(g, J, c)
  <2>1. Changed(c, sp.nOrig) /\ OncePerPage(c)
    <3> HIDE DEF sp
    <3>1. QED
      BY <1>13, <1>14, <1>15, SomeChanges
  <2>2. FromJournal(g, J, c)
    BY <1>13, <1>15 DEF FromJournal
  <2>3. QED
    BY <2>1, <2>2
<1>17. Undoes(g, J, f, sp.nOrig, c, w, s)
  <2> DEFINE m == sp.nOrig
  <2>1. u = Played(Resized(g, m), f, c)
    BY DEF u
  <2> HIDE DEF m, sp
  <2>2. Undoes(g, J, f, m, c, w, s)
    BY <1>5, <1>11, <1>14, <1>16, <2>1, PlayedRight DEF m
  <2>3. QED
    BY <2>2 DEF m
<1> HIDE DEF w, s
<1>18. /\ DOMAIN w = Fields /\ SameCore(g, w) /\ w.aSavepoint = g.aSavepoint /\ PagerType(w) /\ DataFile(s)
       /\ CacheRight(w, J, s) /\ (OwnRecords => ContentRight(w, J, s))
  BY <1>17 DEF Undoes
<1>19. off \in Nat /\ off > 0
  <2>1. w.journalOff \in Nat /\ w.journalOff > 0
    BY <1>11, <1>18 DEF SameCore, Ready, Layout, PagerType
  <2>2. QED
    BY <1>13, <2>1
<1> HIDE DEF off
<1>20. /\ DOMAIN x = Fields /\ x.journalOff = off
       /\ x.eState = w.eState /\ x.jfd = w.jfd /\ x.dbOrigSize = w.dbOrigSize /\ x.nRec = w.nRec /\ x.journalHdr = w.journalHdr
       /\ x.header = w.header /\ x.nonce = w.nonce /\ x.pInJournal = w.pInJournal /\ x.cache = w.cache /\ x.dbSize = w.dbSize
       /\ x.dbFileSize = w.dbFileSize /\ x.sub = w.sub /\ x.aSavepoint = SubSeq(w.aSavepoint, 1, i)
  BY <1>18 DEF Fields
<1> HIDE DEF x
<1>21. /\ Layout(w, J) /\ RecordsRight(w, J) /\ SyncedRight(w, J, jrnl.safe) /\ LastOf(w) = LastOf(g)
  BY <1>11, <1>18, SameCoreFacts DEF Ready
<1>22. /\ PagerType(x) /\ LastOf(x) = LastOf(g) /\ Layout(x, J) /\ RecordsRight(x, J) /\ SyncedRight(x, J, jrnl.safe)
       /\ CacheRight(x, J, s) /\ (OwnRecords => ContentRight(x, J, s))
  <2>1. i \in 0 .. Len(w.aSavepoint)
    BY <1>8, <1>18
  <2>2. /\ PagerType(x) /\ LastOf(x) = LastOf(w)
        /\ Layout(w, J) => Layout(x, J)
        /\ RecordsRight(w, J) => RecordsRight(x, J)
        /\ SyncedRight(w, J, jrnl.safe) => SyncedRight(x, J, jrnl.safe)
        /\ CacheRight(w, J, s) => CacheRight(x, J, s)
        /\ ContentRight(w, J, s) => ContentRight(x, J, s)
    BY <1>18, <1>19, <1>20, <2>1, OtherEnd
  <2>3. QED
    BY <1>18, <1>21, <2>2
<1>23. x.header # 0 => ~J[x.journalHdr + 1].magic /\ J[x.journalHdr + 1].n = 0
  BY <1>11, <1>18, <1>20 DEF Ready, SameCore
<1>24. x.nonce <= ver /\ x.eState \in {"CACHEMOD", "DBMOD"}
  BY <1>4, <1>10, <1>18, <1>20 DEF SameCore
<1>25. QED
  BY <1>1, <1>4, <1>7, <1>18, <1>22, <1>23, <1>24, MustRollBackRight

NoSaves(g) == [g EXCEPT !.aSavepoint = <<>>]

\* After a roll back to the start of a transaction its pager is ready for the next statement.
LEMMA RestartReady ==
    ASSUME Sizes, NEW g, NEW J, NEW f, NEW safe, NEW v, Ready(g, J, f, safe, v), g.dbSize > 0,
           NEW c, c = Changes(J, Records(g, J), g.dbOrigSize),
           NEW u, u = Played(Resized(g, g.dbOrigSize), f, c),
           NEW x, x = NoSaves(u.g)
    PROVE  /\ Ready(x, J, u.f, safe, v) /\ x.dbSize = g.dbOrigSize /\ DOMAIN x.cache = DOMAIN g.cache
           /\ g.dbOrigSize > 0 => PagesOf(x, u.f) <= x.dbSize
<1> DEFINE n == g.dbOrigSize
           w == u.g
           s == u.f
<1>1. /\ PagerType(g) /\ JournalFile(J, v) /\ DataFile(f) /\ g.nonce < v /\ g.eState \in {"CACHEMOD", "DBMOD"}
      /\ g.header # 0 /\ g.journalOff = LastOf(g) /\ Layout(g, J) /\ ~J[g.journalHdr + 1].magic /\ J[g.journalHdr + 1].n = 0
      /\ RecordsRight(g, J) /\ SyncedRight(g, J, safe) /\ CacheRight(g, J, f) /\ SavesRight(g, J, f)
  BY DEF Ready
<1>2. n \in Nat /\ n <= g.dbSize /\ LastOf(g) \in Nat /\ Len(J) \in Nat /\ LastOf(g) <= Len(J)
  BY <1>1, ReadyEnd DEF PagerType, CacheRight
<1>3. RecordBlocks(J, Records(g, J))
  BY <1>2 DEF RecordBlocks, Records, RecordsIn
<1>4. Changed(c, n) /\ ReadFrom(c, J, Records(g, J), n)
  <2> HIDE DEF n
  <2>1. c = Changes(J, Records(g, J), n)
    BY DEF n
  <2>2. QED
    BY <1>1, <1>2, <1>3, <2>1, ChangesFacts
<1>5. /\ \A b : b \in DOMAIN c <=> b \in Records(g, J) /\ J[b].pgno <= n
      /\ \A b \in DOMAIN c : c[b].pgno = J[b].pgno /\ c[b].data = J[b].data /\ c[b].at = b
  BY <1>4 DEF ReadFrom
<1>6. OncePerPage(c) /\ FromJournal(g, J, c)
  BY <1>1, <1>5 DEF OncePerPage, FromJournal, RecordsRight
<1>7. Undoes(g, J, f, n, c, w, s)
  <2>1. u = Played(Resized(g, n), f, c)
    OBVIOUS
  <2> HIDE DEF n
  <2>2. g.dbOrigSize <= n
    BY <1>2 DEF n
  <2>3. QED
    BY <1>2, <1>4, <1>6, <2>1, <2>2, PlayedRight
<1> HIDE DEF w, s
<1>8. /\ DOMAIN w = Fields /\ SameCore(g, w) /\ PagerType(w) /\ DataFile(s) /\ w.dbSize = n /\ w.sub = g.sub
      /\ DOMAIN w.cache = DOMAIN g.cache /\ CacheRight(w, J, s) /\ (OwnRecords => ContentRight(w, J, s))
      /\ \A k \in DOMAIN c : c[k].pgno = 1 => PagesOf(w, s) = c[k].data.n
      /\ n > 0 /\ (\A k \in DOMAIN c : c[k].pgno # 1) => PagesOf(w, s) = PagesOf(g, f)
  BY <1>7 DEF Undoes
<1>9. /\ DOMAIN x = Fields /\ SameCore(w, x) /\ x.cache = w.cache /\ x.dbSize = w.dbSize /\ x.dbFileSize = w.dbFileSize
      /\ x.sub = w.sub /\ x.aSavepoint = <<>>
  BY <1>8 DEF Fields, SameCore, w, NoSaves
<1>10. SameCore(g, x)
  BY <1>8, <1>9 DEF SameCore
<1>11. /\ LastOf(x) = LastOf(g) /\ Records(x, J) = Records(g, J) /\ Records(w, J) = Records(g, J)
       /\ Layout(x, J) /\ RecordsRight(x, J) /\ SyncedRight(x, J, safe)
  BY <1>1, <1>8, <1>10, SameCoreFacts
<1>12. PagesOf(x, s) = PagesOf(w, s)
  BY <1>9 DEF PagesOf
<1>13. PagerType(x)
  <2>1. x.aSavepoint \in Seq(Save) /\ Len(x.aSavepoint) = 0
    BY <1>9
  <2>2. QED
    BY <1>8, <1>9, <2>1 DEF PagerType, SameCore
<1>14. CacheRight(x, J, s) /\ (OwnRecords => ContentRight(x, J, s))
  <2>0. CacheRight(w, J, s) /\ (OwnRecords => ContentRight(w, J, s))
    BY <1>8
  <2>1. CacheRight(x, J, s)
    BY <1>9, <1>11, <2>0 DEF CacheRight, SameCore
  <2>2. OwnRecords => ContentRight(x, J, s)
    BY <1>9, <1>11, <2>0 DEF ContentRight, SameCore
  <2>3. QED
    BY <2>1, <2>2
<1>15. n > 0 => PagesOf(x, s) <= n
  <2> HAVE n > 0
  <2>1. CASE \E k \in DOMAIN c : c[k].pgno = 1
    <3>1. PICK k \in DOMAIN c : c[k].pgno = 1
      BY <2>1
    <3>2. c[k].data.n <= n
      BY <1>1, <1>5, <3>1 DEF RecordsRight
    <3>3. QED
      BY <1>8, <1>12, <3>1, <3>2
  <2>2. CASE \A k \in DOMAIN c : c[k].pgno # 1
    <3>1. 1 \notin g.pInJournal
      <4>1. \A b \in Records(g, J) : J[b].pgno # 1
        BY <1>2, <1>5, <2>2
      <4>2. QED
        BY <1>1, <4>1 DEF RecordsRight
    <3>2. QED
      BY <1>1, <1>8, <1>12, <2>2, <3>1 DEF SavesRight
  <2>3. QED
    BY <2>1, <2>2
<1>16. SavesRight(x, J, s)
  <2>1. SubRight(x)
    BY <1>1, <1>8, <1>9, <1>10 DEF SavesRight, SubRight, SameCore
  <2>2. Len(x.aSavepoint) = 0
    BY <1>9
  <2>3. x.dbOrigSize = n
    BY <1>10 DEF SameCore
  <2>4. QED
    BY <1>15, <2>1, <2>2, <2>3 DEF SavesRight, Nested
<1>17. Ready(x, J, s, safe, v)
  BY <1>1, <1>8, <1>10, <1>11, <1>13, <1>14, <1>16 DEF Ready, SameCore
<1>18. QED
  BY <1>8, <1>9, <1>15, <1>17 DEF s

\* A database that has no page gets its first one.
LEMMA CreatedReady ==
    ASSUME Sizes, ver \in Nat, ver <= MaxVersion, NEW x, NEW J, NEW s, NEW safe, Ready(x, J, s, safe, ver + 1),
           x.dbSize = 0, 1 \in DOMAIN x.cache
    PROVE  LET q == Written([g |-> x, J |-> J], 1, [v |-> ver, n |-> 1])
           IN  /\ Ready(q.g, q.J, s, safe, ver + 1) /\ q.g.dbSize = 1 /\ PagesOf(q.g, s) = 1
<1> DEFINE p == 1
           d == [v |-> ver, n |-> 1]
           q == Written([g |-> x, J |-> J], p, d)
           w == q.g
           K == q.J
<1>1. p \in 1 .. MaxPages /\ MaxPages \in Nat
  BY DEF Sizes
<1>2. d \in Page /\ d.n = 1
  BY DEF Sizes, Page, MaxVersion
<1>3. PagerType(x) /\ x.eState # "LOCKED"
  BY DEF Ready
<1>4. Get(x.cache, db.vis, x.dbSize, p) = Get(x.cache, s, x.dbSize, p)
  BY DEF Get
<1> HIDE DEF d
<1>5. Writes(x, J, s, w, K, p, d)
  <2> DEFINE old == Get(x.cache, db.vis, x.dbSize, p)
  <2> HIDE DEF p
  <2>1. /\ Kept3(x, w) /\ w.dbSize = Bigger(x.dbSize, p)
        /\ SavesMarked(x.aSavepoint, w.aSavepoint, p)
        /\ \E sync \in BOOLEAN : CacheSet(x.cache, w.cache, p, d, sync)
        /\ NewRecord(x, J, w, K, p, old) \/ NoRecord(x, J, w, K, p, old)
    BY <1>1, <1>3, WrittenEffect
  <2> HIDE DEF w, K
  <2>2. QED
    BY <1>4, <2>1 DEF Writes
<1> HIDE DEF w, K, p
<1>6. p <= x.dbSize + 1 /\ ver + 1 \in Nat
  BY DEF p
<1>7. /\ Ready(w, K, s, safe, ver + 1) /\ w.dbSize = Bigger(x.dbSize, p)
      /\ PagesOf(w, s) = IF p = 1 THEN d.n ELSE PagesOf(x, s)
  BY <1>1, <1>2, <1>5, <1>6, WritesReady
<1>8. w.dbSize = 1
  BY <1>7 DEF Bigger, p
<1>9. PagesOf(w, s) = 1
  BY <1>2, <1>7 DEF p
<1>10. QED
  BY <1>7, <1>8, <1>9 DEF w, K, q, d, p

\* Without savepoints, a pager that has begun a transaction may begin it again.
LEMMA BegunAgain ==
    ASSUME Sizes, NEW g, PagerType(g), NEW J, NEW f, DataFile(f), Begun(g, J, f), g.dbSize > 0,
           NEW w, DOMAIN w = Fields, SameCore(g, w), w.dbSize = g.dbSize, w.sub = g.sub, w.dbFileSize = g.dbFileSize,
           CacheType(w.cache), DOMAIN w.cache = DOMAIN g.cache, \A p \in DOMAIN g.cache : w.cache[p] = g.cache[p],
           NEW s, Len(s) = Len(f), \A p \in 1 .. Len(f) : s[p] = f[p],
           NEW x, x = NoSaves(w)
    PROVE  PagerType(x) /\ Begun(x, J, s) /\ x.dbSize = g.dbSize /\ x.eState = g.eState /\ x.nonce = g.nonce
<1>1. /\ DOMAIN x = Fields /\ SameCore(g, x) /\ x.cache = w.cache /\ x.dbSize = g.dbSize /\ x.dbFileSize = g.dbFileSize
      /\ x.sub = g.sub /\ x.aSavepoint = <<>>
  BY DEF Fields, SameCore, NoSaves
<1>2. x.aSavepoint \in Seq(Save) /\ Len(x.aSavepoint) = 0
  BY <1>1
<1>3. PagerType(x)
  BY <1>1, <1>2 DEF PagerType, SameCore
<1>4. \A p \in DOMAIN g.cache : p \in 1 .. Len(f)
  BY DEF Begun
<1>5. Reliable(x, s)
  BY <1>1, <1>4 DEF Begun, Reliable
<1>6. PagesOf(x, s) = PagesOf(g, f)
  <2>1. 1 \in 1 .. Len(f) /\ Len(f) = g.dbSize /\ g.dbSize \in Nat
    BY DEF Begun, PagerType
  <2>2. QED
    BY <1>1, <2>1 DEF PagesOf, Get
<1>7. SavesFresh(x)
  BY <1>2 DEF SavesFresh
<1>8. Begun(x, J, s)
  BY <1>1, <1>5, <1>6, <1>7 DEF Begun, SameCore
<1>9. QED
  BY <1>1, <1>3, <1>8 DEF SameCore

\* A roll back of all savepoints keeps the invariant.
LEMMA RollbackToStartRight ==
    ASSUME WholeInv, RollbackToStart
    PROVE  WholeInv'
<1> DEFINE g == pager
           J == jrnl.vis
           f == db.vis
           n == g.dbOrigSize
           c == Changes(J, Blocks(J, 1, g.journalOff, InProgress(g), FALSE), n)
           u == Played(Resized(g, n), f, c)
           t == UndoneToStart
           x == NoSaves(t.g)
           q == Created(x)
<1>1. /\ pc = Idle /\ pc' = pc /\ setting' = setting /\ gone' = gone /\ faults' = faults /\ ver < MaxVersion /\ ver' = ver + 1
      /\ g.eState \in Writer /\ pager' = q.g /\ jrnl' = Seen(jrnl, q.J) /\ db' = Seen(db, t.f)
  BY DEF RollbackToStart, Fresh, Becomes, NoSaves
<1>2. jrnl'.vis = q.J /\ jrnl'.safe = jrnl.safe /\ db'.vis = t.f /\ db'.safe = db.safe
  BY <1>1 DEF Seen
<1>3. t = IF ~g.jfd THEN [g |-> g, f |-> f] ELSE u
  BY DEF UndoneToStart, Resized
<1>4. q = IF x.dbSize > 0 THEN [g |-> x, J |-> J] ELSE Written([g |-> x, J |-> J], 1, [v |-> ver, n |-> 1])
  BY DEF Created
<1>5. /\ JournalFile(J, ver) /\ JournalFile(jrnl.safe, ver) /\ JournalFile(gone.vis, ver) /\ JournalFile(gone.safe, ver)
      /\ pager.nonce <= ver /\ DataFile(f) /\ DataFile(db.safe) /\ setting \in Settings /\ DOMAIN pc = {"at", "task", "page"}
  BY DEF WholeInv, Basics
<1>6. Sizes /\ ver \in Nat /\ ver <= MaxVersion /\ MaxVersion \in Nat /\ faults \in Nat /\ DOMAIN g = Fields /\ PagerType(g)
  BY Bounds
<1> HIDE DEF c, u, t, q, n
<1>7. CASE g.eState \in {"CACHEMOD", "DBMOD"}
  <2>1. Ready(g, J, f, jrnl.safe, ver + 1) /\ g.dbSize > 0
    BY <1>1, <1>7, ReadyNow
  <2>2. t = u
    BY <1>3, <2>1 DEF Ready, Layout
  <2>3. c = Changes(J, Records(g, J), g.dbOrigSize)
    <3> DEFINE from == 1
               last == LastOf(g)
    <3>1. PagerType(g) /\ JournalFile(J, ver + 1) /\ Layout(g, J) /\ HeaderRight(g, J) /\ g.header # 0
      BY <2>1 DEF Ready, HeaderRight
    <3>2. last \in Nat /\ last <= Len(J) /\ g.journalHdr \in Nat /\ g.journalOff = last /\ last > 0
      BY <2>1, ReadyEnd DEF Ready, Layout
    <3>3. from \in 1 .. g.journalHdr + 1 /\ from <= last /\ LastOf(g) <= last /\ J[from].kind = "hdr"
      BY <3>1, <3>2 DEF Layout
    <3>4. g.header = 0 => ~setting.aligned
      BY <3>1
    <3> HIDE DEF from, last
    <3>5. Blocks(J, from, last, InProgress(g), FALSE) = RecordsIn(J, from, LastOf(g))
      BY <3>1, <3>2, <3>3, <3>4, OwnBlocks
    <3>6. QED
      BY <3>2, <3>5 DEF c, from, Records, n
  <2>4. u = Played(Resized(g, g.dbOrigSize), f, c)
    BY DEF u, n
  <2>5. x = NoSaves(u.g)
    BY <2>2
  <2> HIDE DEF x
  <2>6. /\ Ready(x, J, u.f, jrnl.safe, ver + 1) /\ x.dbSize = g.dbOrigSize /\ DOMAIN x.cache = DOMAIN g.cache
        /\ g.dbOrigSize > 0 => PagesOf(x, u.f) <= x.dbSize
    BY <1>6, <2>1, <2>3, <2>4, <2>5, RestartReady
  <2>7. CASE g.dbOrigSize > 0
    <3>1. q.g = x /\ q.J = J
      BY <1>4, <2>6, <2>7
    <3>2. QED
      BY <1>1, <1>2, <2>2, <2>6, <2>7, <3>1, StatementRight
  <2>8. CASE ~(g.dbOrigSize > 0)
    <3>1. x.dbSize = 0
      BY <1>6, <2>6, <2>8 DEF PagerType
    <3>2. 1 \in DOMAIN x.cache
      <4>1. \A p \in g.dbOrigSize + 1 .. g.dbSize : p \in DOMAIN g.cache
        BY <2>1 DEF Ready, CacheRight
      <4>2. 1 \in g.dbOrigSize + 1 .. g.dbSize
        BY <1>6, <2>1, <2>6, <3>1 DEF PagerType
      <4>3. QED
        BY <2>6, <4>1, <4>2
    <3>3. q = Written([g |-> x, J |-> J], 1, [v |-> ver, n |-> 1])
      BY <1>4, <3>1
    <3>4. Ready(q.g, q.J, u.f, jrnl.safe, ver + 1) /\ q.g.dbSize = 1 /\ PagesOf(q.g, u.f) = 1
      BY <1>6, <2>6, <3>1, <3>2, <3>3, CreatedReady
    <3>5. QED
      BY <1>1, <1>2, <2>2, <3>4, StatementRight
  <2>9. QED
    BY <2>7, <2>8
<1>8. CASE g.eState = "LOCKED"
  <2>1. g.dbSize > 0 /\ Begun(g, J, f) /\ n = g.dbSize /\ g.journalOff = 0
    BY <1>8 DEF WholeInv, LockedRight, Begun, n
  <2>2. DOMAIN c = {}
    BY <2>1 DEF c, Changes, Blocks
  <2>3. /\ DOMAIN t.g = Fields /\ SameCore(g, t.g) /\ t.g.dbSize = g.dbSize /\ t.g.sub = g.sub
        /\ t.g.dbFileSize = g.dbFileSize /\ CacheType(t.g.cache) /\ DOMAIN t.g.cache = DOMAIN g.cache
        /\ \A p \in DOMAIN g.cache : t.g.cache[p] = g.cache[p]
        /\ DataFile(t.f) /\ Len(t.f) = Len(f) /\ \A p \in 1 .. Len(f) : t.f[p] = f[p]
    <3>1. CASE ~g.jfd
      <4>1. t.g = g /\ t.f = f
        BY <1>3, <3>1
      <4>2. QED
        BY <1>5, <1>6, <4>1 DEF SameCore, PagerType
    <3>2. CASE g.jfd
      <4>1. t = u /\ u = Played(Resized(g, g.dbSize), f, c)
        BY <1>3, <2>1, <3>2 DEF u
      <4>2. QED
        BY <1>5, <1>6, <2>1, <2>2, <4>1, NothingUndone
    <3>3. QED
      BY <3>1, <3>2
  <2>4. x = NoSaves(t.g)
    OBVIOUS
  <2> HIDE DEF x
  <2>5. PagerType(x) /\ Begun(x, J, t.f) /\ x.dbSize = g.dbSize /\ x.eState = g.eState /\ x.nonce = g.nonce
    <3> DEFINE w == t.g
               s == t.f
    <3>1. x = NoSaves(w)
      BY <2>4
    <3> HIDE DEF w, s
    <3>2. QED
      BY <1>5, <1>6, <2>1, <2>3, <3>1, BegunAgain DEF w, s
  <2>6. q.g = x /\ q.J = J
    BY <1>4, <2>1, <2>5
  <2>7. ver \in Nat /\ ver + 1 \in Nat /\ ver <= ver + 1
    BY <1>6
  <2>8. /\ JournalFile(J, ver + 1) /\ JournalFile(jrnl.safe, ver + 1)
        /\ JournalFile(gone.vis, ver + 1) /\ JournalFile(gone.safe, ver + 1)
    BY <1>5, <2>7, OlderBlocks
  <2>9. Basics'
    <3>1. pager'.nonce <= ver' /\ ver' \in Nat /\ ver' <= MaxVersion
      <4>1. g.nonce \in Nat
        BY <1>6 DEF PagerType
      <4>2. QED
        BY <1>1, <1>5, <1>6, <2>5, <2>6, <4>1
    <3>2. QED
      BY <1>1, <1>2, <1>5, <1>6, <2>3, <2>5, <2>6, <2>8, <3>1, BasicsRight
  <2>10. OwnRecords' => OwnRecords
    BY <1>1, <1>6, CarriedOwn
  <2>11. LockedRight'
    BY <1>1, <1>2, <2>1, <2>5, <2>6, <2>10, CarriedContent DEF LockedRight
  <2>12. Flow' /\ OpenRight' /\ ReaderRight' /\ WriterRight'
    BY <1>1, <1>8, <2>5, <2>6 DEF Flow, OpenRight, ReaderRight, WriterRight, Opened3
  <2>13. QED
    BY <2>9, <2>11, <2>12 DEF WholeInv
<1>9. QED
  <2>1. g.eState # "FINISHED"
    BY <1>1 DEF WholeInv, Flow, Idle
  <2>2. QED
    BY <1>1, <1>7, <1>8, <2>1 DEF Writer

(***************************************************************************)
(* What a hot journal is played back for.                                  *)
(***************************************************************************)
\* Behind the whole segments up to h, a reader of a hot journal finds the segment that ends
\* with last, or none.
LastPart(J, h, last) ==
    \/ last = h /\ ~MagicAt(J, h + 1)
    \/ /\ MagicAt(J, h + 1) /\ last = h + 1 + J[h + 1].n
       /\ \A m \in h + 2 .. last : J[m].kind = "rec" /\ J[m].nonce = J[h + 1].nonce
       /\ ~MagicAt(J, last + 1)
HotJournal(J, h, last, orig) ==
    /\ Segments(J, h, orig) /\ h <= last /\ last <= Len(J) /\ 0 < Len(J)
    /\ J[1].kind = "hdr" /\ J[1].magic /\ J[1].orig = orig /\ LastPart(J, h, last)

\* The records that pager_playback takes from a hot journal.
LEMMA HotRead ==
    ASSUME NEW J, NEW v, JournalFile(J, v), NEW h \in Nat, NEW last \in Nat, NEW orig, HotJournal(J, h, last, orig)
    PROVE  Blocks(J, 1, Len(J), 0, TRUE) = RecordsIn(J, 1, last)
<1> DEFINE limit == Len(J)
           hdr == 0
           hot == TRUE
<1>1. limit \in Nat /\ h <= limit /\ 1 \in 1 .. limit /\ 1 \in 1 .. h + 1 /\ last <= limit /\ h <= last
  BY DEF JournalFile, Numbered, HotJournal
<1>2. Counted(J, limit)
  BY DEF Counted, JournalFile, IsBlock
<1>3. Segments(J, h, orig) /\ J[1].kind = "hdr" /\ LastPart(J, h, last)
  BY DEF HotJournal
<1>0. hot \in BOOLEAN /\ hot /\ hdr \notin 1 .. limit + 1 /\ hdr \notin 1 .. h
      /\ Blocks(J, 1, Len(J), 0, TRUE) = Blocks(J, 1, limit, hdr, hot)
  BY <1>1
<1> HIDE DEF hot, hdr, limit
<1>4. PICK R : /\ Reads(R, J, limit, hdr, hot)
               /\ \A a \in 1 .. limit : Blocks(J, a, limit, hdr, hot) = R[a]
  BY <1>1, <1>2, BlocksRead
<1>5. R[1] = RecordsIn(J, 1, h) \cup R[h + 1]
  <2> DEFINE a == 1
  <2>1. a \in 1 .. h + 1 /\ J[a].kind = "hdr" /\ a = 1
    BY <1>1, <1>3
  <2> HIDE DEF a
  <2>2. R[a] = RecordsIn(J, a, h) \cup R[h + 1]
    <3>1. Reads(R, J, limit, hdr, hot)
      BY <1>4
    <3>2. hot \/ hdr \notin 1 .. h
      BY <1>0
    <3>3. hot \in BOOLEAN
      BY <1>0
    <3>4. limit \in Nat /\ h <= limit
      BY <1>1
    <3>5. QED
      BY <1>2, <1>3, <2>1, <3>1, <3>2, <3>3, <3>4, SegmentsRead
  <2>3. QED
    BY <2>1, <2>2
<1>6. CASE last = h /\ ~MagicAt(J, h + 1)
  <2>1. R[h + 1] = {}
    <3>1. h + 1 \in 1 .. limit + 1
      BY <1>1
    <3>2. h + 1 > limit \/ ~IsHeader(J, h + 1, hdr, hot)
      BY <1>0, <1>1, <1>6 DEF MagicAt, IsHeader, limit
    <3>3. QED
      BY <1>4, <3>1, <3>2 DEF Reads
  <2>2. QED
    BY <1>0, <1>1, <1>4, <1>5, <1>6, <2>1
<1>7. CASE /\ MagicAt(J, h + 1) /\ last = h + 1 + J[h + 1].n
           /\ \A m \in h + 2 .. last : J[m].kind = "rec" /\ J[m].nonce = J[h + 1].nonce
           /\ ~MagicAt(J, last + 1)
  <2> DEFINE i == h + 1
             n == J[i].n
  <2>1. i \in Nat /\ i > 0 /\ i \in 1 .. limit /\ J[i].kind = "hdr" /\ J[i].magic
    BY <1>1, <1>7 DEF MagicAt, limit
  <2>2. n \in Nat /\ last = i + n
    BY <1>2, <1>7, <2>1 DEF Counted
  <2>3. \A m \in i + 1 .. i + n : J[m].kind = "rec" /\ J[m].nonce = J[i].nonce
    BY <1>7, <2>2
  <2>4. i + n + 1 > limit \/ ~IsHeader(J, i + n + 1, hdr, hot)
    BY <1>0, <1>1, <1>7, <2>2 DEF MagicAt, IsHeader, limit
  <2> HIDE DEF i, n
  <2>5. LastSegment(J, limit, hdr, hot, i, n)
    <3>1. J[i].n = n
      BY DEF n
    <3>2. QED
      BY <1>0, <1>1, <2>1, <2>2, <2>3, <2>4, <3>1 DEF LastSegment
  <2>6. R[i] = i + 1 .. i + n
    <3>1. Reads(R, J, limit, hdr, hot)
      BY <1>4
    <3>2. hot \in BOOLEAN
      BY <1>0
    <3>3. limit \in Nat
      BY <1>1
    <3>4. QED
      BY <1>2, <2>1, <2>2, <2>5, <3>1, <3>2, <3>3, LastSegmentRead
  <2>7. \A k : k \in 1 .. last <=> k \in 1 .. h \/ k = i \/ k \in i + 1 .. i + n
    BY <1>1, <2>1, <2>2 DEF i
  <2>8. RecordsIn(J, 1, last) = RecordsIn(J, 1, h) \cup (i + 1 .. i + n)
    BY <2>1, <2>3, <2>7 DEF RecordsIn
  <2>9. QED
    BY <1>0, <1>1, <1>4, <1>5, <2>6, <2>8 DEF i
<1>8. QED
  BY <1>3, <1>6, <1>7 DEF LastPart

\* Two numbered files with the same pages are the same.
LEMMA SameFile ==
    ASSUME NEW f, NEW g, Numbered(f), Numbered(g), Len(f) = Len(g), \A p \in 1 .. Len(f) : f[p] = g[p]
    PROVE  f = g
<1>1. f = [k \in 1 .. Len(f) |-> f[k]] /\ g = [k \in 1 .. Len(g) |-> g[k]]
  BY DEF Numbered
<1>2. QED
  BY <1>1

\* What the play back of a hot journal makes of the file r.
Recovers(J, last, orig, f, r) ==
    /\ Numbered(r) /\ Len(r) = orig
    /\ \A b \in RecordsIn(J, 1, last) : r[J[b].pgno] = J[b].data
    /\ \A p \in 1 .. orig : (\A b \in RecordsIn(J, 1, last) : J[b].pgno # p) => r[p] = f[p]
OneEach(J, last, orig) ==
    /\ \A a, b \in RecordsIn(J, 1, last) : J[a].pgno = J[b].pgno => a = b
    /\ \A b \in RecordsIn(J, 1, last) : J[b].pgno \in 1 .. orig

\* The play back of a hot journal puts its records into the file and leaves the other pages.
LEMMA Recovered ==
    ASSUME Sizes, NEW f, DataFile(f), NEW J, NEW v, JournalFile(J, v), NEW h \in Nat, NEW last \in Nat,
           NEW orig \in Nat, orig <= Len(f), HotJournal(J, h, last, orig), OneEach(J, last, orig)
    PROVE  Recovers(J, last, orig, f, RolledBack(f, J))
<1> DEFINE blocks == RecordsIn(J, 1, last)
           base == Sized(f, orig)
           c == Changes(J, blocks, orig)
           r == Stored(base, Pages(c))
<1>1. RolledBack(f, J) = r
  <2>1. Blocks(J, 1, Len(J), 0, TRUE) = blocks /\ J[1].orig = orig
    BY HotRead DEF HotJournal
  <2>2. RolledBack(f, J) = The({Stored(Sized(f, J[1].orig), Pages(x)) : x \in {Changes(J, Blocks(J, 1, Len(J), 0, TRUE), J[1].orig)}})
    BY DEF RolledBack
  <2> HIDE DEF blocks
  <2>3. RolledBack(f, J) = The({Stored(base, Pages(x)) : x \in {c}})
    BY <2>1, <2>2
  <2>4. {Stored(base, Pages(x)) : x \in {c}} = {r}
    OBVIOUS
  <2> HIDE DEF r
  <2>5. QED
    BY <2>3, <2>4, TheOne
<1>2. Numbered(f) /\ Len(f) \in Nat /\ Len(f) <= MaxPages /\ \A p \in 1 .. Len(f) : f[p] \in Page
  BY DEF DataFile, Numbered
<1>3. /\ Numbered(base) /\ Len(base) = orig
      /\ \A p \in 1 .. orig : base[p] = IF p <= Len(f) THEN f[p] ELSE Zero
  BY <1>2, SizedFacts
<1>4. \A p \in 1 .. orig : base[p] = f[p] /\ f[p] \in Page
  BY <1>2, <1>3
<1> HIDE DEF base
<1>5. DataFile(base)
  BY <1>2, <1>3, <1>4, Sizes DEF DataFile, Sizes
<1>6. RecordBlocks(J, blocks)
  <2>1. last <= Len(J) /\ Len(J) \in Nat
    BY DEF HotJournal, JournalFile, Numbered
  <2>2. QED
    BY <2>1 DEF RecordBlocks, RecordsIn
<1>7. Changed(c, orig) /\ ReadFrom(c, J, blocks, orig)
  BY <1>6, ChangesFacts
<1> HIDE DEF c
<1>8. DOMAIN c = blocks /\ \A b \in blocks : c[b].pgno = J[b].pgno /\ c[b].data = J[b].data /\ J[b].pgno \in 1 .. orig
  <2>1. \A b \in blocks : J[b].pgno \in 1 .. orig
    BY DEF blocks, OneEach
  <2>2. \A b \in blocks : J[b].pgno <= orig
    <3>1. \A k \in 1 .. orig : k <= orig
      OBVIOUS
    <3>2. QED
      BY <2>1, <3>1
  <2>3. DOMAIN c = blocks
    BY <1>7, <2>2 DEF ReadFrom
  <2>4. QED
    BY <1>7, <2>1, <2>3 DEF ReadFrom
<1> HIDE DEF blocks
<1>9. OncePerPage(c)
  BY <1>8 DEF OncePerPage, OneEach, blocks
<1>10. /\ DataFile(r) /\ Len(r) = Len(base)
       /\ \A p \in 1 .. Len(base) : (\A k \in DOMAIN c : c[k].pgno # p) => r[p] = base[p]
       /\ OncePerPage(c) => \A k \in DOMAIN c : r[c[k].pgno] = c[k].data
  <2>1. Pages(c) = Latest(c, DOMAIN c)
    BY DEF Pages
  <2>2. orig <= Len(base)
    BY <1>3
  <2> DEFINE S == DOMAIN c
             s == Stored(base, Latest(c, S))
  <2>3. S \subseteq DOMAIN c
    OBVIOUS
  <2> HIDE DEF S
  <2>4. /\ DataFile(s) /\ Len(s) = Len(base)
        /\ \A p \in 1 .. Len(base) : (\A k \in S : c[k].pgno # p) => s[p] = base[p]
        /\ OncePerPage(c) => \A k \in S : s[c[k].pgno] = c[k].data
    BY <1>5, <1>7, <2>2, <2>3, StoredChanges
  <2>5. QED
    BY <2>1, <2>4 DEF S
<1> HIDE DEF r
<1>11. Numbered(r) /\ Len(r) = orig
  BY <1>3, <1>10 DEF DataFile
<1>12. \A b \in blocks : r[J[b].pgno] = J[b].data
  BY <1>8, <1>9, <1>10
<1>13. \A p \in 1 .. orig : (\A b \in blocks : J[b].pgno # p) => r[p] = f[p]
  BY <1>3, <1>4, <1>8, <1>10
<1>14. QED
  BY <1>1, <1>11, <1>12, <1>13 DEF Recovers, blocks

\* What a reader of the journal would take is part of what the transaction journalled.
LEMMA HotPart ==
    ASSUME WholeInv, pager.eState \in Opened3, jrnl.vis[1].magic
    PROVE  \E last \in pager.journalHdr .. LastOf(pager) :
               HotJournal(jrnl.vis, pager.journalHdr, last, pager.dbOrigSize)
<1> DEFINE g == pager
           J == jrnl.vis
           h == g.journalHdr
           orig == g.dbOrigSize
           end == LastOf(g)
<1>1. Layout(g, J) /\ Stage
  BY DEF WholeInv, WriterRight
<1>2. JournalFile(J, ver) /\ h \in Nat /\ g.nRec \in Nat /\ g.header \in Nat
  BY DEF WholeInv, Basics, PagerType
<1>3. Len(J) \in Nat /\ end \in Nat /\ h <= end /\ end = IF g.header = 0 THEN h ELSE h + 1 + g.nRec
  BY <1>2 DEF LastOf, JournalFile, Numbered
<1>4. /\ end <= Len(J) /\ 0 < Len(J) /\ J[1].kind = "hdr" /\ J[1].magic /\ J[1].orig = orig /\ Segments(J, h, orig)
      /\ g.header = 0 => ~MagicAt(J, h + 1)
      /\ g.header # 0 => InProgressRight(g, J)
  BY <1>1, <1>3 DEF Layout
<1>5. ASSUME NEW last \in h .. end, LastPart(J, h, last)
      PROVE  \E l \in h .. end : HotJournal(J, h, l, orig)
  <2>1. h <= last /\ last <= Len(J)
    BY <1>2, <1>3, <1>4, <1>5
  <2>2. HotJournal(J, h, last, orig)
    BY <1>4, <1>5, <2>1 DEF HotJournal
  <2>3. QED
    BY <2>2
<1>6. CASE ~MagicAt(J, h + 1)
  <2>1. h \in h .. end /\ LastPart(J, h, h)
    BY <1>2, <1>3, <1>6 DEF LastPart
  <2>2. QED
    BY <1>5, <2>1
<1>7. CASE MagicAt(J, h + 1)
  <2>1. g.header # 0 /\ J[h + 1].magic
    BY <1>4, <1>7 DEF MagicAt
  <2>2. J[h + 1].n = g.nRec /\ ~MagicAt(J, end + 1)
    BY <1>1, <2>1 DEF Stage
  <2>3. \A m \in h + 1 + 1 .. end : J[m].kind = "rec" /\ J[m].nonce = J[h + 1].nonce
    BY <1>4, <2>1 DEF InProgressRight
  <2>4. h + 1 + 1 = h + 2
    BY <1>2
  <2>5. \A m \in h + 2 .. end : J[m].kind = "rec" /\ J[m].nonce = J[h + 1].nonce
    BY <2>3, <2>4
  <2>6. end = h + 1 + J[h + 1].n
    BY <1>3, <2>1, <2>2
  <2>7. LastPart(J, h, end)
    BY <1>7, <2>2, <2>5, <2>6 DEF LastPart
  <2>8. end \in h .. end
    BY <1>2, <1>3
  <2>9. QED
    BY <1>5, <2>7, <2>8
<1>8. QED
  BY <1>6, <1>7

\* Each page has one of its records.
LEMMA OnePart ==
    ASSUME NEW g, PagerType(g), NEW J, RecordsRight(g, J), NEW last \in g.journalHdr .. LastOf(g)
    PROVE  OneEach(J, last, g.dbOrigSize) /\ RecordsIn(J, 1, last) \subseteq Records(g, J)
<1>1. g.journalHdr \in Nat /\ LastOf(g) \in Nat /\ g.pInJournal \subseteq 1 .. g.dbOrigSize
  BY DEF PagerType, LastOf
<1>2. \A b \in 1 .. last : b \in 1 .. LastOf(g)
  BY <1>1
<1>3. RecordsIn(J, 1, last) \subseteq Records(g, J)
  BY <1>2 DEF Records, RecordsIn
<1>4. QED
  BY <1>1, <1>3 DEF OneEach, RecordsRight

\* A journal whose header is not synced would be played back for nothing.
LEMMA NothingYet ==
    ASSUME WholeInv, OwnRecords, pager.eState = "CACHEMOD", Hot(db.vis, jrnl.vis), Sizes
    PROVE  RolledBack(db.vis, jrnl.vis) = db.vis
<1> DEFINE g == pager
           J == jrnl.vis
           f == db.vis
           r == RolledBack(f, J)
           h == g.journalHdr
           orig == g.dbOrigSize
<1>1. g.eState \in Opened3
  BY DEF Opened3
<1>2. /\ Layout(g, J) /\ RecordsRight(g, J) /\ CacheRight(g, J, f) /\ ContentRight(g, J, f)
  BY <1>1 DEF WholeInv, WriterRight
<1>3. PagerType(g) /\ JournalFile(J, ver) /\ DataFile(f)
  BY DEF WholeInv, Basics
<1>4. h = 0 /\ h \in Nat /\ Len(f) = orig /\ orig \in Nat /\ orig <= Len(f)
  BY <1>2, <1>3 DEF Layout, CacheRight, PagerType
<1>5. PICK last \in h .. LastOf(g) : HotJournal(J, h, last, orig)
  BY <1>1, HotPart DEF Hot
<1>6. OneEach(J, last, orig) /\ RecordsIn(J, 1, last) \subseteq Records(g, J)
  BY <1>2, <1>3, OnePart
<1>7. last \in Nat
  BY <1>3, <1>4, <1>5 DEF PagerType, LastOf
<1>8. Recovers(J, last, orig, f, r)
  BY <1>3, <1>4, <1>5, <1>6, <1>7, Recovered
<1>9. \A b \in RecordsIn(J, 1, last) : J[b].data = f[J[b].pgno]
  <2>1. \A b \in 1 .. last : b > h
    BY <1>4, <1>7
  <2>2. \A b \in RecordsIn(J, 1, last) : b > h
    BY <2>1 DEF RecordsIn
  <2>3. QED
    BY <1>2, <1>6, <2>2 DEF ContentRight
<1> HIDE DEF r
<1>10. \A p \in 1 .. orig : r[p] = f[p]
  BY <1>8, <1>9 DEF Recovers
<1>11. Numbered(r) /\ Len(r) = Len(f) /\ Numbered(f)
  BY <1>3, <1>4, <1>8 DEF Recovers, DataFile
<1>12. r = f
  BY <1>4, <1>10, <1>11, SameFile
<1>13. QED
  BY <1>12 DEF r

\* Whole segments depend on their own blocks only.
LEMMA SegmentsKept ==
    ASSUME NEW J, NEW K, NEW v, JournalFile(K, v), NEW h \in Nat, h <= Len(K), NEW orig, Segments(J, h, orig),
           \A i \in 1 .. h : K[i] = J[i]
    PROVE  Segments(K, h, orig)
<1>1. Len(K) \in Nat
  BY DEF JournalFile, Numbered
<1> SUFFICES ASSUME NEW i \in 1 .. h, K[i].kind # "rec" PROVE IsSegment(K, i, h, orig)
  BY DEF Segments
<1>2. K[i] = J[i] /\ IsSegment(J, i, h, orig)
  BY DEF Segments
<1> DEFINE n == J[i].n
<1>3. n \in Nat
  <2>1. i \in 1 .. Len(K)
    BY <1>1
  <2>2. QED
    BY <1>2, <2>1 DEF JournalFile, IsBlock, IsSegment
<1>4. /\ i + n <= h
      /\ \A m \in i + 1 .. i + n : J[m].kind = "rec" /\ J[m].nonce = J[i].nonce
      /\ i + n = h \/ J[i + n + 1].kind = "hdr"
  BY <1>2 DEF IsSegment
<1> HIDE DEF n
<1>5. (\A m \in i + 1 .. i + n : m \in 1 .. h) /\ (i + n = h \/ i + n + 1 \in 1 .. h)
  BY <1>3, <1>4
<1>6. /\ \A m \in i + 1 .. i + n : K[m].kind = "rec" /\ K[m].nonce = J[i].nonce
      /\ i + n = h \/ K[i + n + 1].kind = "hdr"
  BY <1>4, <1>5
<1>7. QED
  BY <1>2, <1>4, <1>6 DEF IsSegment, n

\* What is synced of a journal whose header is synced would be played back to the same file.
LEMMA SyncedEnough ==
    ASSUME WholeInv, OwnRecords, pager.eState \in {"DBMOD", "FINISHED"}, Hot(db.vis, jrnl.vis), Sizes
    PROVE  /\ Hot(db.vis, jrnl.safe)
           /\ RolledBack(db.vis, jrnl.vis) = RolledBack(db.vis, jrnl.safe)
<1> DEFINE g == pager
           J == jrnl.vis
           K == jrnl.safe
           f == db.vis
           r == RolledBack(f, J)
           s == RolledBack(f, K)
           h == g.journalHdr
           orig == g.dbOrigSize
<1>1. g.eState \in Opened3
  BY DEF Opened3
<1>2. /\ Layout(g, J) /\ RecordsRight(g, J) /\ CacheRight(g, J, f) /\ ContentRight(g, J, f) /\ SyncedRight(g, J, K)
  BY <1>1 DEF WholeInv, WriterRight
<1>3. PagerType(g) /\ JournalFile(J, ver) /\ JournalFile(K, ver) /\ DataFile(f)
  BY DEF WholeInv, Basics
<1>4. h \in Nat /\ h > 0 /\ orig \in Nat /\ orig <= Len(f) /\ LastOf(g) \in Nat /\ h <= LastOf(g)
  <2>1. h \in Nat /\ g.nRec \in Nat /\ g.header \in Nat /\ orig \in Nat
    BY <1>3 DEF PagerType
  <2>2. LastOf(g) \in Nat /\ h <= LastOf(g)
    BY <2>1 DEF LastOf
  <2>3. h # 0 /\ orig <= Len(f)
    BY <1>2 DEF Layout, CacheRight
  <2>4. QED
    BY <2>1, <2>2, <2>3
<1>5. PICK last \in h .. LastOf(g) : HotJournal(J, h, last, orig)
  BY <1>1, HotPart DEF Hot
<1>6. OneEach(J, last, orig) /\ RecordsIn(J, 1, last) \subseteq Records(g, J)
  BY <1>2, <1>3, OnePart
<1>7. last \in Nat /\ h <= last /\ h \in h .. LastOf(g) /\ \A b \in 1 .. h : b \in 1 .. last
  BY <1>4, <1>5
<1>8. Recovers(J, last, orig, f, r)
  BY <1>3, <1>4, <1>5, <1>6, <1>7, Recovered
<1>9. /\ Len(K) \in Nat /\ Len(K) >= h /\ ~MagicAt(K, h + 1)
      /\ \A i \in 1 .. h : K[i] = J[i]
  BY <1>2, <1>3, <1>4 DEF SyncedRight, JournalFile, Numbered
<1>10. Segments(K, h, orig)
  <2>1. Segments(J, h, orig) /\ h <= Len(K)
    BY <1>2, <1>9 DEF Layout
  <2>2. QED
    BY <1>3, <1>4, <1>9, <2>1, SegmentsKept
<1>11. HotJournal(K, h, h, orig)
  <2>1. 1 \in 1 .. h
    BY <1>4
  <2>2. K[1] = J[1]
    BY <1>9, <2>1
  <2>3. J[1].kind = "hdr" /\ J[1].magic /\ J[1].orig = orig
    BY <1>5 DEF HotJournal
  <2>4. LastPart(K, h, h)
    BY <1>9 DEF LastPart
  <2>5. QED
    BY <1>4, <1>9, <1>10, <2>2, <2>3, <2>4 DEF HotJournal
<1>12. \A b : b \in RecordsIn(K, 1, h) <=> b \in 1 .. h /\ b \in RecordsIn(J, 1, last)
  BY <1>7, <1>9 DEF RecordsIn
<1>13. \A b \in RecordsIn(K, 1, h) : b \in RecordsIn(J, 1, last) /\ K[b] = J[b]
  BY <1>9, <1>12
<1>14. OneEach(K, h, orig)
  BY <1>6, <1>13 DEF OneEach
<1>15. Recovers(K, h, orig, f, s)
  BY <1>3, <1>4, <1>11, <1>14, Recovered
<1> HIDE DEF r, s
<1>16. ASSUME NEW p \in 1 .. orig PROVE r[p] = s[p]
  <2>1. CASE \E b \in RecordsIn(K, 1, h) : K[b].pgno = p
    <3>1. PICK b \in RecordsIn(K, 1, h) : K[b].pgno = p
      BY <2>1
    <3>2. b \in RecordsIn(J, 1, last) /\ K[b] = J[b]
      BY <1>13
    <3>3. QED
      BY <1>8, <1>15, <3>1, <3>2 DEF Recovers
  <2>2. CASE \A b \in RecordsIn(K, 1, h) : K[b].pgno # p
    <3>1. s[p] = f[p]
      BY <1>15, <2>2 DEF Recovers
    <3>2. CASE \A b \in RecordsIn(J, 1, last) : J[b].pgno # p
      BY <1>8, <3>1, <3>2 DEF Recovers
    <3>3. CASE \E b \in RecordsIn(J, 1, last) : J[b].pgno = p
      <4>1. PICK b \in RecordsIn(J, 1, last) : J[b].pgno = p
        BY <3>3
      <4>2. b \notin 1 .. h
        <5>1. b \in 1 .. h => b \in RecordsIn(K, 1, h)
          BY <1>12
        <5>2. QED
          BY <1>13, <2>2, <4>1, <5>1
      <4>3. b > h
        <5>1. b \in 1 .. last
          BY DEF RecordsIn
        <5>2. QED
          BY <1>4, <1>7, <4>2, <5>1
      <4>4. J[b].data = f[p]
        BY <1>2, <1>6, <4>1, <4>3 DEF ContentRight
      <4>5. QED
        BY <1>8, <3>1, <4>1, <4>4 DEF Recovers
    <3>4. QED
      BY <3>2, <3>3
  <2>3. QED
    BY <2>1, <2>2
<1>17. r = s
  <2>1. Numbered(r) /\ Numbered(s) /\ Len(r) = orig /\ Len(s) = orig
    BY <1>8, <1>15 DEF Recovers
  <2>2. QED
    BY <1>16, <2>1, SameFile
<1>18. Hot(f, K)
  BY <1>11 DEF Hot, HotJournal
<1>19. QED
  BY <1>17, <1>18 DEF r, s

\* What a reader would find with a journal.
LEMMA CommittedIs == \A J : Committed(J) = FileImage(IF Hot(db.vis, J) THEN RolledBack(db.vis, J) ELSE db.vis)
<1> TAKE J
<1> DEFINE x == IF Hot(db.vis, J) THEN RolledBack(db.vis, J) ELSE db.vis
<1>1. Committed(J) = The({FileImage(f) : f \in {x}})
  BY DEF Committed
<1> HIDE DEF x
<1>2. {FileImage(f) : f \in {x}} = {FileImage(x)}
  OBVIOUS
<1>3. Committed(J) = FileImage(x)
  BY <1>1, <1>2, TheOne
<1>4. QED
  BY <1>3 DEF x

\* The write-ahead rule follows from the invariant.
LEMMA AheadRight ==
    ASSUME WholeInv, Sizes
    PROVE  WriteAhead
<1> SUFFICES ASSUME OwnRecords, pager.eState \in Writer, FileImage(db.vis) # Base
             PROVE  Hot(db.vis, jrnl.safe) /\ Committed(jrnl.safe) = Base
  BY DEF WriteAhead
<1>1. Base = FileImage(IF Hot(db.vis, jrnl.vis) THEN RolledBack(db.vis, jrnl.vis) ELSE db.vis)
  BY CommittedIs DEF Base
<1>2. Hot(db.vis, jrnl.vis) /\ Base = FileImage(RolledBack(db.vis, jrnl.vis))
  BY <1>1
<1>3. pager.eState # "LOCKED"
  <2>1. pager.eState = "LOCKED" => ~MagicAt(jrnl.vis, 1)
    BY DEF WholeInv, LockedRight, Begun
  <2>2. MagicAt(jrnl.vis, 1)
    <3>1. Len(jrnl.vis) \in Nat
      BY DEF WholeInv, Basics, JournalFile, Numbered
    <3>2. QED
      BY <1>2, <3>1 DEF Hot, MagicAt
  <2>3. QED
    BY <2>1, <2>2
<1>4. pager.eState # "CACHEMOD"
  BY <1>2, NothingYet
<1>5. pager.eState \in {"DBMOD", "FINISHED"}
  BY <1>3, <1>4 DEF Writer
<1>6. Hot(db.vis, jrnl.safe) /\ RolledBack(db.vis, jrnl.vis) = RolledBack(db.vis, jrnl.safe)
  BY <1>2, <1>5, SyncedEnough
<1>7. Committed(jrnl.safe) = FileImage(RolledBack(db.vis, jrnl.safe))
  BY <1>6, CommittedIs
<1>8. QED
  BY <1>2, <1>6, <1>7

\* The cache agrees with the file.
LEMMA CleanRight ==
    ASSUME WholeInv
    PROVE  TypeOK /\ (OwnRecords => CleanIsStored)
<1>1. PagerType(pager) /\ JournalFile(jrnl.vis, ver) /\ DataFile(db.vis)
  BY DEF WholeInv, Basics
<1>2. TypeOK
  <2>1. pager.eState \in {"OPEN", "READER", "ERROR"} \cup Writer /\ pager.pInJournal \subseteq 1 .. pager.dbOrigSize
    BY <1>1 DEF PagerType
  <2>2. \A p \in DOMAIN pager.cache : pager.cache[p] \in [data : Page, dirty : BOOLEAN, sync : BOOLEAN]
    BY <1>1 DEF PagerType, CacheType
  <2>3. \A i \in DOMAIN pager.aSavepoint :
            pager.aSavepoint[i].nOrig \in 0 .. MaxPages /\ pager.aSavepoint[i].iSubRec \in 0 .. Len(pager.sub)
    <3>1. pager.aSavepoint \in Seq(Save) /\ pager.sub \in Seq(Entry)
      BY <1>1 DEF PagerType
    <3>2. TAKE i \in DOMAIN pager.aSavepoint
    <3>3. i \in 1 .. Len(pager.aSavepoint) /\ Len(pager.sub) \in Nat
      BY <3>1
    <3>4. pager.aSavepoint[i] \in Save
      BY <3>1, <3>3
    <3>5. pager.aSavepoint[i].iSubRec <= Len(pager.sub)
      BY <1>1, <3>3 DEF PagerType
    <3>6. pager.aSavepoint[i].nOrig \in 0 .. MaxPages /\ pager.aSavepoint[i].iSubRec \in Nat
      BY <3>4 DEF Save
    <3>7. QED
      BY <3>3, <3>5, <3>6
  <2>4. \A p \in DOMAIN db.vis : db.vis[p] \in Page
    BY <1>1, NumberedDomain DEF DataFile
  <2>5. \A i \in DOMAIN jrnl.vis : jrnl.vis[i].kind \in {"hdr", "rec", "junk"}
    BY <1>1, NumberedDomain DEF JournalFile, IsBlock
  <2>6. QED
    BY <2>1, <2>2, <2>3, <2>4, <2>5 DEF TypeOK
<1>3. ASSUME OwnRecords, pager.eState \in {"READER"} \cup Writer,
             NEW p \in DOMAIN pager.cache, ~pager.cache[p].dirty, p <= pager.dbSize
      PROVE  p <= Len(db.vis) /\ pager.cache[p].data = db.vis[p]
  <2>1. CASE pager.eState = "READER"
    BY <1>3, <2>1 DEF WholeInv, ReaderRight, Reliable
  <2>2. CASE pager.eState = "LOCKED"
    BY <1>3, <2>2 DEF WholeInv, LockedRight, Begun, Reliable
  <2>3. CASE pager.eState \in Opened3
    BY <1>3, <2>3 DEF WholeInv, WriterRight, CacheRight, ContentRight
  <2>4. QED
    BY <1>3, <2>1, <2>2, <2>3 DEF Writer, Opened3
<1>4. OwnRecords => CleanIsStored
  BY <1>3 DEF CleanIsStored
<1>5. QED
  BY <1>2, <1>4

\* The first database is a database file.
LEMMA NewData ==
    ASSUME Sizes, NEW n \in 0 .. MaxPages - 1
    PROVE  DataFile(NewDatabase(n))
<1> DEFINE d == NewDatabase(n)
<1>1. n \in Nat /\ n <= MaxPages
  BY DEF Sizes
<1>2. DOMAIN d = 1 .. n /\ d = [k \in 1 .. n |-> d[k]]
  BY DEF NewDatabase
<1>3. Numbered(d) /\ Len(d) = n
  BY <1>1, <1>2, LenOf
<1>4. ASSUME NEW p \in 1 .. n PROVE d[p] \in Page
  <2>1. d[p] = [v |-> 0, n |-> IF p = 1 THEN n ELSE 0]
    BY DEF NewDatabase
  <2>2. 0 \in -2 .. MaxVersion /\ (IF p = 1 THEN n ELSE 0) \in 0 .. MaxPages
    BY <1>1 DEF Sizes, MaxVersion
  <2>3. QED
    BY <2>1, <2>2 DEF Page
<1> HIDE DEF d
<1>5. DataFile(d)
  BY <1>1, <1>3, <1>4 DEF DataFile
<1>6. QED
  BY <1>5 DEF d

\* The invariant holds at first,
LEMMA InitWhole == Init => WholeInv
<1> SUFFICES ASSUME Init PROVE WholeInv
  OBVIOUS
<1>1. /\ setting \in Settings /\ pager = Opened /\ jrnl = NoFile /\ gone = NoFile /\ pc = Idle
      /\ ver = 1 /\ faults = 0
      /\ \E n \in 0 .. MaxPages - 1 : db = [vis |-> NewDatabase(n), safe |-> NewDatabase(n)]
  BY DEF Init
<1>2. PICK n \in 0 .. MaxPages - 1 : db = [vis |-> NewDatabase(n), safe |-> NewDatabase(n)]
  BY <1>1
<1>3. Sizes /\ ver \in Nat /\ ver <= MaxVersion
  <2>1. /\ {setting.maxVersion, setting.maxSaves, setting.maxFaults, setting.maxCrashes, MaxPages} \subseteq Nat
        /\ setting.maxVersion > 0
    BY <1>1, SettingAssumption
  <2>2. setting.maxVersion \in Nat /\ MaxPages \in Nat
    BY <2>1
  <2>3. QED
    BY <1>1, <1>2, <2>1, <2>2 DEF Sizes, MaxVersion
<1>4. DataFile(db.vis) /\ DataFile(db.safe)
  BY <1>2, <1>3, NewData
<1>5. /\ JournalFile(jrnl.vis, ver) /\ JournalFile(jrnl.safe, ver)
      /\ JournalFile(gone.vis, ver) /\ JournalFile(gone.safe, ver)
  <2>1. NoFile.vis = <<>> /\ NoFile.safe = <<>>
    BY DEF NoFile
  <2>2. QED
    BY <1>1, <2>1, EmptyJournal
<1>6. /\ PagerType(pager) /\ pager.eState = "OPEN" /\ pager.cache = <<>> /\ pager.nonce = 0
      /\ pager.pInJournal = {} /\ pager.sub = <<>> /\ pager.header = 0 /\ pager.aSavepoint = <<>>
  BY <1>1, <1>3, OpenedPager
<1>7. DOMAIN Idle = {"at", "task", "page"} /\ Idle.at = "idle" /\ Idle.task = "none"
  BY DEF Idle
<1>8. Basics
  BY <1>1, <1>3, <1>4, <1>5, <1>6, <1>7 DEF Basics, Sizes
<1>9. Flow /\ ReaderRight /\ LockedRight /\ WriterRight
  BY <1>1, <1>6 DEF Flow, ReaderRight, LockedRight, WriterRight, Opened3
<1>10. OpenRight
  BY <1>1, <1>6, <1>7 DEF OpenRight, Reliable
<1>11. QED
  BY <1>8, <1>9, <1>10 DEF WholeInv

\* a step that changes nothing keeps it,
LEMMA StutterRight ==
    ASSUME WholeInv, UNCHANGED vars
    PROVE  WholeInv'
<1>1. /\ pager' = pager /\ db' = db /\ jrnl' = jrnl /\ gone' = gone /\ pc' = pc /\ ver' = ver
      /\ faults' = faults /\ setting' = setting
  BY DEF vars
<1>2. OwnRecords' <=> OwnRecords
  BY <1>1 DEF OwnRecords
<1>3. Basics'
  BY <1>1, Bounds, BasicsRight DEF WholeInv, Basics
<1>4. Flow'
  BY <1>1 DEF WholeInv, Flow
<1>5. (\A g, f : Reliable(g, f)' <=> Reliable(g, f)) /\ \A g, J, f : Begun(g, J, f)' <=> Begun(g, J, f)
  BY <1>2 DEF Reliable, Begun
<1>6. OpenRight' /\ ReaderRight' /\ LockedRight'
  BY <1>1, <1>5 DEF WholeInv, OpenRight, ReaderRight, LockedRight
<1>7. Stage' <=> Stage
  BY <1>1, <1>2 DEF Stage
<1>8. WriterRight'
  BY <1>1, <1>2, <1>7 DEF WholeInv, WriterRight
<1>9. QED
  BY <1>3, <1>4, <1>6, <1>8 DEF WholeInv

\* and so does every step:
LEMMA StepWhole == WholeInv /\ [Next]_vars => WholeInv'
<1> SUFFICES ASSUME WholeInv, [Next]_vars PROVE WholeInv'
  OBVIOUS
<1>1. CASE UNCHANGED vars
  BY <1>1, StutterRight
<1>2. CASE SharedLock \/ Begin \/ ChangePage \/ AddPage \/ ChangeFails
  BY <1>2, SharedLockRight, BeginRight, ChangePageRight, AddPageRight, ChangeFailsRight
<1>3. CASE OpenSavepoint \/ Release \/ RollbackTo \/ RollbackToStart \/ RollbackToFails
  BY <1>3, OpenSavepointRight, ReleaseRight, RollbackToRight, RollbackToStartRight, RollbackToFailsRight
<1>4. CASE CommitPhaseOne \/ Spill \/ Rollback \/ Playback
  BY <1>4, CommitPhaseOneRight, SpillRight, RollbackRight, PlaybackRight
<1>5. CASE SyncRecords \/ WriteCount \/ SyncCount \/ WritePages \/ SyncDb
  BY <1>5, SyncRecordsRight, WriteCountRight, SyncCountRight, WritePagesRight, SyncDbRight
<1>6. CASE Finalize \/ Shrink \/ Unlock \/ PowerFailure
  BY <1>6, FinalizeRight, ShrinkRight, UnlockRight, PowerFailureRight
<1>7. QED
  BY <1>1, <1>2, <1>3, <1>4, <1>5, <1>6 DEF Next

\* it always holds.
LEMMA AlwaysWhole == Spec => []WholeInv
  BY InitWhole, StepWhole, PTL DEF Spec

(***************************************************************************)
(* Between two calls a clean page in the cache is the page of the file, so *)
(* the cache may drop it and read it again: through statements, spills,    *)
(* savepoints, failing system calls, commits, roll backs, hot journals and *)
(* power failures (sqlite3PcacheMakeClean, pager_playback_one_page,        *)
(* pager_end_transaction), wherever a roll back reads its own records.     *)
(***************************************************************************)
THEOREM CacheIsSound == Spec => []CacheSound
<1>1. WholeInv => CacheSound
  BY CleanRight DEF CacheSound
<1>2. QED
  BY <1>1, AlwaysWhole, PTL

(***************************************************************************)
(* The write-ahead rule: while a transaction has changed what the database *)
(* file holds, the journal as it is on disk is hot and its play back gives *)
(* back the committed image.  syncJournal syncs the records and their      *)
(* count before pager_write_pagelist writes a page they belong to, in a    *)
(* spill and in a commit, whatever failed before.                          *)
(***************************************************************************)
THEOREM WritesAhead == Spec => []WriteAhead
<1>1. WholeInv => WriteAhead
  BY Bounds, AheadRight
<1>2. QED
  BY <1>1, AlwaysWhole, PTL

(***************************************************************************)
(* The committed image.                                                    *)
(***************************************************************************)
ImageNow(f, J) == FileImage(IF Hot(f, J) THEN RolledBack(f, J) ELSE f)

\* The records that a reader would take beyond the whole segments hold what the file has.
Harmless(J, h, end, orig, f) ==
    Hot(f, J) =>
        \E last \in h .. end :
            HotJournal(J, h, last, orig) /\ \A b \in RecordsIn(J, 1, last) : b > h => J[b].data = f[J[b].pgno]

\* Whatever of a transaction is on its way, the committed image is that of the original file r.
LEMMA OriginalRead ==
    ASSUME Sizes, NEW h \in Nat, NEW end \in Nat, NEW orig \in Nat, NEW J, NEW v, JournalFile(J, v), NEW f, DataFile(f),
           orig <= Len(f), h = 0 => Len(f) = orig, h > 0 => 0 < Len(J) /\ J[1].kind = "hdr" /\ J[1].magic,
           OneEach(J, end, orig), Harmless(J, h, end, orig, f),
           NEW r, Recovers(J, h, orig, f, r)
    PROVE  ImageNow(f, J) = FileImage(r)
<1>1. Numbered(f) /\ Len(f) \in Nat /\ Numbered(r) /\ Len(r) = orig
  BY DEF DataFile, Numbered, Recovers
<1>2. CASE Hot(f, J)
  <2> DEFINE s == RolledBack(f, J)
  <2>1. PICK last \in h .. end :
            HotJournal(J, h, last, orig) /\ \A b \in RecordsIn(J, 1, last) : b > h => J[b].data = f[J[b].pgno]
    BY <1>2 DEF Harmless
  <2>2. last \in Nat /\ \A b \in 1 .. last : b \in 1 .. end
    OBVIOUS
  <2>3. OneEach(J, last, orig)
    BY <2>2 DEF OneEach, RecordsIn
  <2>4. Recovers(J, last, orig, f, s)
    BY <2>1, <2>2, <2>3, Recovered
  <2> HIDE DEF s
  <2>5. \A b : b \in RecordsIn(J, 1, h) => b \in RecordsIn(J, 1, last)
    BY <2>2 DEF RecordsIn
  <2>6. ASSUME NEW p \in 1 .. orig PROVE s[p] = r[p]
    <3>1. CASE \E b \in RecordsIn(J, 1, h) : J[b].pgno = p
      BY <2>4, <2>5, <3>1 DEF Recovers
    <3>2. CASE \A b \in RecordsIn(J, 1, h) : J[b].pgno # p
      <4>1. r[p] = f[p]
        BY <3>2 DEF Recovers
      <4>2. CASE \A b \in RecordsIn(J, 1, last) : J[b].pgno # p
        BY <2>4, <4>1, <4>2 DEF Recovers
      <4>3. CASE \E b \in RecordsIn(J, 1, last) : J[b].pgno = p
        <5>1. PICK b \in RecordsIn(J, 1, last) : J[b].pgno = p
          BY <4>3
        <5>2. b \notin RecordsIn(J, 1, h)
          BY <3>2, <5>1
        <5>3. b \in 1 .. last /\ J[b].kind = "rec"
          BY DEF RecordsIn
        <5>4. b > h
          BY <2>2, <5>2, <5>3 DEF RecordsIn
        <5>5. J[b].data = f[p]
          BY <2>1, <5>1, <5>4
        <5>6. QED
          BY <2>4, <4>1, <5>1, <5>5 DEF Recovers
      <4>4. QED
        BY <4>2, <4>3
    <3>3. QED
      BY <3>1, <3>2
  <2>7. Numbered(s) /\ Len(s) = orig
    BY <2>4 DEF Recovers
  <2>8. s = r
    BY <1>1, <2>6, <2>7, SameFile
  <2>9. QED
    BY <1>2, <2>8 DEF ImageNow, s
<1>3. CASE ~Hot(f, J)
  <2>1. Len(f) = 0 \/ h = 0
    BY <1>1, <1>3 DEF Hot
  <2>2. Len(f) = orig
    BY <1>1, <2>1
  <2>3. RecordsIn(J, 1, h) = {} \/ orig = 0
    BY <1>1, <2>1 DEF RecordsIn
  <2>4. \A p \in 1 .. orig : r[p] = f[p]
    BY <2>3 DEF Recovers
  <2>5. f = r
    BY <1>1, <2>2, <2>4, SameFile
  <2>6. QED
    BY <1>3, <2>5 DEF ImageNow
<1>4. QED
  BY <1>2, <1>3

\* There is such a file.
LEMMA OriginalExists ==
    ASSUME NEW h \in Nat, NEW orig \in Nat, NEW J, OneEach(J, h, orig), NEW f
    PROVE  \E r : Recovers(J, h, orig, f, r)
<1> DEFINE R == RecordsIn(J, 1, h)
           r == [p \in 1 .. orig |-> IF \E b \in R : J[b].pgno = p THEN J[CHOOSE b \in R : J[b].pgno = p].data ELSE f[p]]
<1>1. DOMAIN r = 1 .. orig /\ r = [k \in 1 .. orig |-> r[k]]
  OBVIOUS
<1>2. ASSUME NEW b \in R PROVE r[J[b].pgno] = J[b].data
  <2>1. J[b].pgno \in 1 .. orig
    BY DEF OneEach
  <2> DEFINE c == CHOOSE c \in R : J[c].pgno = J[b].pgno
  <2>2. c \in R /\ J[c].pgno = J[b].pgno
    OBVIOUS
  <2>3. c = b
    BY <2>2 DEF OneEach
  <2>4. r[J[b].pgno] = J[c].data
    BY <2>1
  <2>5. QED
    BY <2>3, <2>4
<1>3. ASSUME NEW p \in 1 .. orig, \A b \in R : J[b].pgno # p PROVE r[p] = f[p]
  BY <1>3
<1> HIDE DEF r
<1>4. Numbered(r) /\ Len(r) = orig
  BY <1>1, LenOf
<1>5. Recovers(J, h, orig, f, r)
  BY <1>2, <1>3, <1>4 DEF Recovers
<1>6. QED
  BY <1>5

\* What a transaction leaves of the original file: the pages without a record in a whole segment.
Untouched(J, h, orig, f, w) ==
    \A p \in 1 .. orig : w[p] = f[p] \/ \E b \in RecordsIn(J, 1, h) : J[b].pgno = p

\* The committed image is that of the original file, also with another tail of the journal,
\* and with other contents of the pages that the whole segments give back.
LEMMA OriginalAny ==
    ASSUME WholeInv, OwnRecords, pager.eState \in Opened3,
           NEW w, DataFile(w), pager.dbOrigSize <= Len(w), pager.journalHdr = 0 => Len(w) = pager.dbOrigSize,
           Untouched(jrnl.vis, pager.journalHdr, pager.dbOrigSize, db.vis, w),
           NEW K, NEW v, JournalFile(K, v),
           K = jrnl.vis \/ /\ pager.journalHdr <= Len(K) /\ 0 < Len(K) /\ ~MagicAt(K, pager.journalHdr + 1)
                           /\ \A i \in 1 .. pager.journalHdr : K[i] = jrnl.vis[i]
                           /\ K[1].kind = "hdr",
           NEW r, Recovers(jrnl.vis, pager.journalHdr, pager.dbOrigSize, db.vis, r)
    PROVE  ImageNow(w, K) = FileImage(r)
<1> DEFINE g == pager
           J == jrnl.vis
           f == db.vis
           h == g.journalHdr
           orig == g.dbOrigSize
           end == LastOf(g)
<1>1. Sizes /\ PagerType(g) /\ JournalFile(J, ver) /\ DataFile(f)
  BY Bounds DEF WholeInv, Basics
<1>2. Layout(g, J) /\ RecordsRight(g, J) /\ CacheRight(g, J, f) /\ ContentRight(g, J, f)
  BY DEF WholeInv, WriterRight
<1>3. h \in Nat /\ orig \in Nat /\ end \in Nat /\ h <= end
  <2>1. h \in Nat /\ g.nRec \in Nat /\ g.header \in Nat /\ orig \in Nat
    BY <1>1 DEF PagerType
  <2>2. QED
    BY <2>1 DEF LastOf
<1>4. end <= Len(J) /\ 0 < end /\ J[1].kind = "hdr" /\ Segments(J, h, orig) /\ J[1].orig = orig /\ Len(J) \in Nat
  BY <1>1, <1>2 DEF Layout, JournalFile, Numbered
<1>5. h > 0 => J[1].magic
  <2>1. h > 0 => 1 \in 1 .. h
    BY <1>3
  <2>2. QED
    BY <1>4, <2>1 DEF Segments, IsSegment
<1>6. OneEach(J, end, orig) /\ RecordsIn(J, 1, end) \subseteq Records(g, J)
  <2>1. end \in h .. end
    BY <1>3
  <2>2. QED
    BY <1>1, <1>2, <2>1, OnePart
<1>7. \A last \in h .. end : RecordsIn(J, 1, last) \subseteq RecordsIn(J, 1, end)
  BY <1>3 DEF RecordsIn
<1>8. h \in h .. end /\ RecordsIn(J, 1, h) \subseteq RecordsIn(J, 1, end)
  BY <1>3, <1>7
<1>9. ASSUME NEW b \in RecordsIn(J, 1, end), b > h PROVE J[b].data = w[J[b].pgno]
  <2>1. J[b].data = f[J[b].pgno]
    BY <1>2, <1>6, <1>9 DEF ContentRight
  <2>2. J[b].pgno \in 1 .. orig
    BY <1>6 DEF OneEach
  <2>3. \A a \in RecordsIn(J, 1, h) : J[a].pgno # J[b].pgno
    <3>1. SUFFICES ASSUME NEW a \in RecordsIn(J, 1, h), J[a].pgno = J[b].pgno PROVE FALSE
      OBVIOUS
    <3>2. a = b
      BY <1>6, <1>8, <3>1 DEF OneEach
    <3>3. QED
      BY <1>3, <1>9, <3>2 DEF RecordsIn
  <2>4. QED
    BY <2>1, <2>2, <2>3 DEF Untouched
<1>10. Recovers(J, h, orig, w, r)
  BY DEF Recovers, Untouched
<1>11. CASE K = J
  <2>1. Harmless(J, h, end, orig, w)
    <3>1. SUFFICES ASSUME Hot(w, J)
                   PROVE  \E last \in h .. end :
                              HotJournal(J, h, last, orig) /\ \A b \in RecordsIn(J, 1, last) : b > h => J[b].data = w[J[b].pgno]
      BY DEF Harmless
    <3>2. PICK last \in h .. end : HotJournal(J, h, last, orig)
      BY <3>1, HotPart DEF Hot
    <3>3. QED
      BY <1>7, <1>9, <3>2
  <2>2. 0 < Len(J)
    BY <1>3, <1>4
  <2>3. ImageNow(w, J) = FileImage(r)
    BY <1>1, <1>3, <1>4, <1>5, <1>6, <1>10, <2>1, <2>2, OriginalRead
  <2>4. QED
    BY <1>11, <2>3
<1>12. CASE /\ h <= Len(K) /\ 0 < Len(K) /\ ~MagicAt(K, h + 1) /\ \A i \in 1 .. h : K[i] = J[i]
            /\ K[1].kind = "hdr"
  <2>1. Len(K) \in Nat
    BY DEF JournalFile, Numbered
  <2>2. Segments(K, h, orig)
    <3>1. h <= Len(K)
      BY <1>3, <1>12, <2>1
    <3>2. h \in Nat /\ Segments(J, h, orig) /\ \A i \in 1 .. h : K[i] = J[i]
      BY <1>3, <1>4, <1>12
    <3> HIDE DEF h, J, orig
    <3>3. QED
      BY <3>1, <3>2, SegmentsKept
  <2>3. RecordsIn(K, 1, h) = RecordsIn(J, 1, h) /\ \A b \in RecordsIn(J, 1, h) : K[b] = J[b]
    BY <1>12 DEF RecordsIn
  <2>4. OneEach(K, h, orig)
    BY <1>6, <1>8, <2>3 DEF OneEach
  <2>5. Recovers(K, h, orig, w, r)
    BY <1>10, <2>3 DEF Recovers
  <2>6. h > 0 => 1 \in 1 .. h
    BY <1>3
  <2>7. h > 0 => K[1] = J[1]
    BY <1>12, <2>6
  <2>8. h = 0 => ~MagicAt(K, 1)
    BY <1>12
  <2>9. 0 < Len(K)
    BY <1>3, <1>12, <2>1
  <2>10. Harmless(K, h, h, orig, w)
    <3>1. SUFFICES ASSUME Hot(w, K) PROVE HotJournal(K, h, h, orig) /\ \A b \in RecordsIn(K, 1, h) : ~(b > h)
      BY <1>3 DEF Harmless
    <3>2. \A b \in RecordsIn(K, 1, h) : ~(b > h)
      BY <1>3 DEF RecordsIn
    <3>3. K[1].magic /\ K[1].kind = "hdr"
      BY <3>1 DEF Hot
    <3>4. h # 0
      BY <2>1, <2>8, <2>9, <3>3 DEF MagicAt
    <3>5. K[1].orig = orig
      BY <1>3, <1>4, <2>7, <3>4
    <3>6. h <= Len(K) /\ LastPart(K, h, h)
      BY <1>3, <1>12, <2>1 DEF LastPart
    <3>7. QED
      BY <1>3, <2>2, <2>9, <3>2, <3>3, <3>5, <3>6 DEF HotJournal
  <2>11. h > 0 => K[1].magic
    BY <1>5, <2>7
  <2>12. QED
    BY <1>1, <1>3, <1>12, <2>4, <2>5, <2>9, <2>10, <2>11, OriginalRead
<1>13. QED
  BY <1>11, <1>12

\* The committed image, by the operator the proofs use.
LEMMA BaseIs == Base = ImageNow(db.vis, jrnl.vis)
  BY CommittedIs DEF Base, ImageNow

\* What the journal of the transaction gives back is the committed image.
LEMMA OriginalNow ==
    WholeInv /\ OwnRecords /\ pager.eState \in Opened3 =>
        \A r : Recovers(jrnl.vis, pager.journalHdr, pager.dbOrigSize, db.vis, r) => Base = FileImage(r)
<1> SUFFICES ASSUME WholeInv, OwnRecords, pager.eState \in Opened3,
                    NEW r, Recovers(jrnl.vis, pager.journalHdr, pager.dbOrigSize, db.vis, r)
             PROVE  Base = FileImage(r)
  OBVIOUS
<1>1. DataFile(db.vis) /\ JournalFile(jrnl.vis, ver)
  BY DEF WholeInv, Basics
<1>2. pager.dbOrigSize <= Len(db.vis) /\ (pager.journalHdr = 0 => Len(db.vis) = pager.dbOrigSize)
  BY DEF WholeInv, WriterRight, Layout, CacheRight
<1>3. Untouched(jrnl.vis, pager.journalHdr, pager.dbOrigSize, db.vis, db.vis)
  BY DEF Untouched
<1>4. ImageNow(db.vis, jrnl.vis) = FileImage(r)
  BY <1>1, <1>2, <1>3, OriginalAny
<1>5. QED
  BY <1>4, BaseIs

\* The same of the next state.
LEMMA OriginalNext ==
    ASSUME WholeInv', OwnRecords', (pager.eState \in Opened3)'
    PROVE  \A r : Recovers(jrnl'.vis, pager'.journalHdr, pager'.dbOrigSize, db'.vis, r) => Base' = FileImage(r)
<1>1. (WholeInv /\ OwnRecords /\ pager.eState \in Opened3 =>
          \A r : Recovers(jrnl.vis, pager.journalHdr, pager.dbOrigSize, db.vis, r) => Base = FileImage(r))'
  BY OriginalNow, PTL
<1>2. QED
  BY <1>1

\* Each page has at most one record in the whole segments.
LEMMA OneWhole ==
    WholeInv /\ pager.eState \in Opened3 =>
        /\ OneEach(jrnl.vis, pager.journalHdr, pager.dbOrigSize)
        /\ pager.journalHdr \in Nat /\ pager.dbOrigSize \in Nat
<1> SUFFICES ASSUME WholeInv, pager.eState \in Opened3
             PROVE  /\ OneEach(jrnl.vis, pager.journalHdr, pager.dbOrigSize)
                    /\ pager.journalHdr \in Nat /\ pager.dbOrigSize \in Nat
  OBVIOUS
<1>1. PagerType(pager) /\ RecordsRight(pager, jrnl.vis) /\ Sizes
  BY Bounds DEF WholeInv, WriterRight
<1>2. pager.journalHdr \in Nat /\ pager.dbOrigSize \in Nat /\ pager.nRec \in Nat /\ pager.header \in Nat
  BY <1>1 DEF PagerType, Sizes
<1>3. pager.journalHdr \in pager.journalHdr .. LastOf(pager)
  BY <1>2 DEF LastOf
<1>4. QED
  BY <1>1, <1>2, <1>3, OnePart

\* In the next state the whole segments have one record of a page at most.
LEMMA OneWholeNext ==
    ASSUME WholeInv', (pager.eState \in Opened3)'
    PROVE  /\ OneEach(jrnl'.vis, pager'.journalHdr, pager'.dbOrigSize)
           /\ pager'.journalHdr \in Nat /\ pager'.dbOrigSize \in Nat
<1>1. (WholeInv /\ pager.eState \in Opened3 =>
        /\ OneEach(jrnl.vis, pager.journalHdr, pager.dbOrigSize)
        /\ pager.journalHdr \in Nat /\ pager.dbOrigSize \in Nat)'
  BY OneWhole, PTL
<1>2. QED
  BY <1>1

\* A step that leaves the whole segments, and the pages that have no record in them, keeps
\* the committed image.
LEMMA SameOriginal ==
    ASSUME WholeInv, WholeInv', OwnRecords, OwnRecords', pager.eState \in Opened3, pager'.eState \in Opened3,
           pager'.dbOrigSize = pager.dbOrigSize, pager.journalHdr <= pager'.journalHdr,
           \A i \in 1 .. pager.journalHdr : jrnl'.vis[i] = jrnl.vis[i],
           \A b \in RecordsIn(jrnl'.vis, 1, pager'.journalHdr) :
               b > pager.journalHdr => jrnl'.vis[b].data = db.vis[jrnl'.vis[b].pgno],
           Untouched(jrnl.vis, pager.journalHdr, pager.dbOrigSize, db.vis, db'.vis)
    PROVE  Base' = Base
<1> DEFINE J == jrnl.vis
           K == jrnl'.vis
           h == pager.journalHdr
           k == pager'.journalHdr
           orig == pager.dbOrigSize
<1>1. OneEach(J, h, orig) /\ h \in Nat /\ orig \in Nat
  BY OneWhole
<1>2. OneEach(K, k, orig) /\ k \in Nat
  BY OneWholeNext DEF Opened3
<1>3. PICK r : Recovers(J, h, orig, db.vis, r)
  BY <1>1, OriginalExists
<1>4. Base = FileImage(r)
  BY <1>3, OriginalNow
<1>5. \A b \in RecordsIn(J, 1, h) : b \in RecordsIn(K, 1, k) /\ K[b] = J[b]
  BY <1>1, <1>2 DEF RecordsIn
<1>6. ASSUME NEW b \in RecordsIn(K, 1, k) PROVE r[K[b].pgno] = K[b].data
  <2>1. CASE b <= h
    <3>1. b \in RecordsIn(J, 1, h) /\ K[b] = J[b]
      BY <1>1, <1>2, <2>1 DEF RecordsIn
    <3>2. QED
      BY <1>3, <3>1 DEF Recovers
  <2>2. CASE b > h
    <3>1. K[b].data = db.vis[K[b].pgno] /\ K[b].pgno \in 1 .. orig
      BY <1>2, <2>2 DEF OneEach
    <3>2. ASSUME NEW a \in RecordsIn(J, 1, h) PROVE J[a].pgno # K[b].pgno
      <4>1. a \in RecordsIn(K, 1, k) /\ K[a] = J[a] /\ a <= h /\ a \in Nat
        BY <1>1, <1>5 DEF RecordsIn
      <4>2. a # b
        BY <1>1, <2>2, <4>1
      <4>3. QED
        BY <1>2, <4>1, <4>2 DEF OneEach
    <3>3. QED
      BY <1>3, <3>1, <3>2 DEF Recovers
  <2>3. b \in Nat
    BY <1>2 DEF RecordsIn
  <2>4. QED
    BY <1>1, <2>1, <2>2, <2>3
<1>7. ASSUME NEW p \in 1 .. orig, \A b \in RecordsIn(K, 1, k) : K[b].pgno # p PROVE r[p] = db'.vis[p]
  <2>1. \A b \in RecordsIn(J, 1, h) : J[b].pgno # p
    BY <1>5, <1>7
  <2>2. r[p] = db.vis[p]
    BY <1>3, <2>1 DEF Recovers
  <2>3. QED
    BY <2>1, <2>2 DEF Untouched
<1>8. Recovers(K, k, orig, db'.vis, r)
  BY <1>3, <1>6, <1>7 DEF Recovers
<1>9. Base' = FileImage(r)
  BY <1>8, OriginalNext DEF Opened3
<1>10. QED
  BY <1>4, <1>9

\* The whole segments are synced, so they stay as long as the synced journal does.
LEMMA SameHead ==
    ASSUME WholeInv, WholeInv', pager.eState \in Opened3, pager'.eState \in Opened3,
           jrnl'.safe = jrnl.safe, pager'.journalHdr = pager.journalHdr
    PROVE  \A i \in 1 .. pager.journalHdr : jrnl'.vis[i] = jrnl.vis[i]
<1>1. SyncedRight(pager, jrnl.vis, jrnl.safe)
  BY DEF WholeInv, WriterRight
<1>2. SyncedRight(pager, jrnl.vis, jrnl.safe)'
  BY DEF WholeInv, WriterRight, Opened3
<1>3. QED
  BY <1>1, <1>2 DEF SyncedRight

\* A step of a transaction that writes behind the whole segments keeps the committed image.
LEMMA TailWritten ==
    ASSUME WholeInv, WholeInv', OwnRecords, OwnRecords', pager.eState \in Opened3, pager'.eState \in Opened3,
           jrnl'.safe = jrnl.safe, pager'.journalHdr = pager.journalHdr, pager'.dbOrigSize = pager.dbOrigSize,
           Untouched(jrnl.vis, pager.journalHdr, pager.dbOrigSize, db.vis, db'.vis)
    PROVE  Base' = Base
<1>1. \A i \in 1 .. pager.journalHdr : jrnl'.vis[i] = jrnl.vis[i]
  BY SameHead
<1>2. pager.journalHdr \in Nat
  BY OneWhole
<1>3. \A b \in RecordsIn(jrnl'.vis, 1, pager'.journalHdr) : ~(b > pager.journalHdr)
  BY <1>2 DEF RecordsIn
<1>4. pager.journalHdr <= pager'.journalHdr
  BY <1>2
<1>5. QED
  BY <1>1, <1>3, <1>4, SameOriginal

\* The committed image of the next state.
LEMMA BaseNext == Base' = ImageNow(db'.vis, jrnl'.vis)
<1>1. (Base = ImageNow(db.vis, jrnl.vis))'
  BY BaseIs, PTL
<1>2. QED
  BY <1>1

\* The committed image depends on the two files only.
LEMMA SameFiles ==
    ASSUME db'.vis = db.vis, jrnl'.vis = jrnl.vis
    PROVE  Base' = Base
  BY BaseIs, BaseNext

\* A transaction that writes pages whose records are synced, or the blocks behind the header in
\* progress, keeps the committed image, wherever it stops.
LEMMA FileWritten ==
    ASSUME WholeInv, OwnRecords, pager.eState \in Opened3, setting' = setting,
           DataFile(db'.vis), pager.dbOrigSize <= Len(db'.vis), pager.journalHdr = 0 => Len(db'.vis) = pager.dbOrigSize,
           Untouched(jrnl.vis, pager.journalHdr, pager.dbOrigSize, db.vis, db'.vis),
           NEW v, JournalFile(jrnl'.vis, v),
           jrnl'.vis = jrnl.vis \/ /\ pager.journalHdr < Len(jrnl'.vis) /\ ~MagicAt(jrnl'.vis, pager.journalHdr + 1)
                                   /\ \A i \in 1 .. pager.journalHdr : jrnl'.vis[i] = jrnl.vis[i]
                                   /\ jrnl'.vis[1].kind = "hdr"
    PROVE  Base' = Base
<1>1. OneEach(jrnl.vis, pager.journalHdr, pager.dbOrigSize) /\ pager.journalHdr \in Nat /\ pager.dbOrigSize \in Nat
  BY OneWhole
<1>2. PICK r : Recovers(jrnl.vis, pager.journalHdr, pager.dbOrigSize, db.vis, r)
  BY <1>1, OriginalExists
<1>3. ImageNow(db'.vis, jrnl'.vis) = FileImage(r)
  <2>1. Len(jrnl'.vis) \in Nat
    BY DEF JournalFile, Numbered
  <2>2. pager.journalHdr < Len(jrnl'.vis) => pager.journalHdr <= Len(jrnl'.vis) /\ 0 < Len(jrnl'.vis)
    BY <1>1, <2>1
  <2>3. QED
    BY <1>2, <2>2, OriginalAny
<1>4. Base = FileImage(r)
  BY <1>2, OriginalNow
<1>5. QED
  BY <1>3, <1>4, BaseNext

\* Without a valid journal the committed image is that of the file.
LEMMA NotHot ==
    WholeInv /\ ~MagicAt(jrnl.vis, 1) => Base = FileImage(db.vis)
<1> SUFFICES ASSUME WholeInv, ~MagicAt(jrnl.vis, 1) PROVE Base = FileImage(db.vis)
  OBVIOUS
<1>1. Len(jrnl.vis) \in Nat
  BY Bounds
<1>2. ~Hot(db.vis, jrnl.vis)
  BY <1>1 DEF Hot, MagicAt
<1>3. QED
  BY <1>2, BaseIs DEF ImageNow

\* A journal that is not hot leaves the file as the committed image.
LEMMA NotHotNext ==
    ASSUME WholeInv', ~MagicAt(jrnl'.vis, 1)
    PROVE  Base' = FileImage(db'.vis)
<1>1. (WholeInv /\ ~MagicAt(jrnl.vis, 1) => Base = FileImage(db.vis))'
  BY NotHot, PTL
<1>2. QED
  BY <1>1

(***************************************************************************)
(* The steps that keep the committed image.  Of a roll back and a commit   *)
(* that are under way one must know what the file holds:                   *)
(***************************************************************************)
BaseRight ==
    OwnRecords =>
        /\ pc.task \in {"rollback", "recover"} /\ pc.at \in {"syncDb", "finalize"} => Base = FileImage(db.vis)
        /\ pc.task = "recover" /\ pc.at = "playback" => Hot(db.vis, jrnl.vis) /\ pager.journalHdr = Len(jrnl.vis)
        /\ pc.task = "commit" => /\ pager.dbSize > 0 /\ PagesOf(pager, db.vis) <= pager.dbSize
                                 /\ pager.eState # "LOCKED" => 1 \in DOMAIN pager.cache
        /\ pc.task = "end" => pager.dbSize > 0 /\ db.vis[1].n <= pager.dbSize

Ends == pc.at = "finalize" /\ pc.task = "commit" /\ Base' = Image(pager.cache, db.vis, pager.dbSize)
BaseKept == OwnRecords' => Base' = Base \/ Ends \/ crashes' # crashes

\* Elsewhere it says nothing.
LEMMA BaseElsewhere ==
    ASSUME pc'.task \in {"none", "spill"} \/ (pc'.task = "rollback" /\ pc'.at = "playback")
    PROVE  BaseRight'
<1>1. pc'.task # "commit" /\ pc'.task # "recover" /\ (pc'.task = "rollback" => pc'.at = "playback")
      /\ pc'.task # "end"
  OBVIOUS
<1>2. QED
  BY <1>1 DEF BaseRight

\* Between two calls nothing is under way.
LEMMA IdleFacts == Idle.at = "idle" /\ Idle.task = "none"
  BY DEF Idle

\* The journal of the first write has a header without a magic.
LEMMA Opening ==
    ASSUME WholeInv, WholeInv', ~MagicAt(jrnl.vis, 1), db'.vis = db.vis, pager'.eState = "CACHEMOD",
           pc'.at \in {"idle", "syncRecords"}, pc'.task # "rollback"
    PROVE  Base' = Base
<1>1. (Layout(pager, jrnl.vis) /\ Stage)'
  BY DEF WholeInv, WriterRight, Opened3
<1>2. pager'.journalHdr = 0 /\ pager'.header = 1
  BY <1>1 DEF Layout
<1>3. ~jrnl'.vis[1].magic
  BY <1>1, <1>2 DEF Stage
<1>4. ~MagicAt(jrnl'.vis, 1)
  BY <1>3 DEF MagicAt
<1>5. QED
  BY <1>4, NotHot, NotHotNext

\* What a write of pages makes of the pager g.
Wrote(g, w) ==
    \/ g.eState # "LOCKED" /\ w.eState = g.eState /\ w.dbOrigSize = g.dbOrigSize /\ w.journalHdr = g.journalHdr
    \/ g.eState = "LOCKED" /\ w.eState = "CACHEMOD"

\* What a statement does, or a roll back to a savepoint: it writes the journal behind the whole
\* segments, and pages of the file that have a record in them.
Moves ==
    /\ jrnl'.safe = jrnl.safe /\ db'.safe = db.safe /\ gone' = gone
    /\ pc = Idle /\ pc'.at \in {"idle", "syncRecords"} /\ pc'.task # "rollback"
    /\ \/ /\ pager.eState \in {"CACHEMOD", "DBMOD"} /\ pager'.eState = pager.eState
          /\ pager'.dbOrigSize = pager.dbOrigSize /\ pager'.journalHdr = pager.journalHdr
          /\ Untouched(jrnl.vis, pager.journalHdr, pager.dbOrigSize, db.vis, db'.vis)
       \/ /\ pager.eState \in {"READER", "LOCKED"} /\ db'.vis = db.vis
          /\ pager'.eState = "CACHEMOD" \/ (pager'.eState = "LOCKED" /\ jrnl'.vis = jrnl.vis)

\* It keeps the committed image.
LEMMA MovesBase ==
    ASSUME WholeInv, WholeInv', OwnRecords, OwnRecords', Moves
    PROVE  Base' = Base
<1>1. CASE pager.eState \in {"READER", "LOCKED"}
  <2>1. ~MagicAt(jrnl.vis, 1)
    BY <1>1 DEF WholeInv, ReaderRight, LockedRight, Begun
  <2>2. db'.vis = db.vis /\ (pager'.eState = "CACHEMOD" \/ jrnl'.vis = jrnl.vis)
    BY <1>1 DEF Moves
  <2>3. QED
    BY <2>1, <2>2, Opening, SameFiles DEF Moves
<1>2. CASE pager.eState \in {"CACHEMOD", "DBMOD"}
  BY <1>2, TailWritten DEF Moves, Opened3
<1>3. QED
  BY <1>1, <1>2 DEF Moves

\* The writer now, as a pair of pager and journal.
LEMMA NowIsPair ==
    ASSUME WholeInv PROVE Pair(Now) /\ Now = [g |-> pager, J |-> jrnl.vis] /\ Pair([g |-> pager, J |-> jrnl.vis])
<1>1. PagerType(pager) /\ JournalFile(jrnl.vis, ver)
  BY DEF WholeInv, Basics
<1>2. QED
  BY <1>1 DEF Now, Pair, PagerType, JournalFile

\* A page that is written is one step of the writer.
LEMMA WrittenWrote ==
    ASSUME NEW s, Pair(s), NEW p, NEW d
    PROVE  Pair(Written(s, p, d)) /\ Wrote(s.g, Written(s, p, d).g)
<1>1. /\ s.g.eState # "LOCKED" => Follows(s, Written(s, p, d))
      /\ s.g.eState = "LOCKED" => Pair(Written(s, p, d)) /\ Opens(Written(s, p, d))
  BY WrittenFacts
<1>2. QED
  BY <1>1 DEF Follows, Opens, Wrote

\* A file differs from itself in no page.
LEMMA SamePages == \A J, h, orig, f : Untouched(J, h, orig, f, f)
  BY DEF Untouched

\* sqlite3PagerWrite, with allocateBtreePage, and the first step of a commit keep the image.
LEMMA ChangePageBase ==
    ASSUME WholeInv, WholeInv', OwnRecords, OwnRecords', ChangePage \/ AddPage
    PROVE  Base' = Base /\ BaseRight' /\ Moves
<1>1. /\ pc = Idle /\ pc' = pc /\ db' = db /\ gone' = gone /\ pager.eState \in {"LOCKED", "CACHEMOD", "DBMOD"}
  BY DEF ChangePage, AddPage, InStatement
<1>2. \E w : Becomes(w) /\ Wrote(pager, w.g)
  <2>1. Pair(Now) /\ Now.g = pager
    BY NowIsPair
  <2>2. CASE ChangePage
    <3>1. \E p, d : Becomes(Written(Now, p, d))
      BY <2>2 DEF ChangePage
    <3>2. QED
      BY <2>1, <3>1, WrittenWrote
  <2>3. CASE AddPage
    <3>1. PICK p, d, e : Becomes(Written(Written(Now, 1, d), p, e))
      BY <2>3 DEF AddPage
    <3>2. Pair(Written(Now, 1, d)) /\ Wrote(pager, Written(Now, 1, d).g)
      BY <2>1, WrittenWrote
    <3>3. Wrote(Written(Now, 1, d).g, Written(Written(Now, 1, d), p, e).g)
      BY <3>2, WrittenWrote
    <3>4. QED
      BY <3>1, <3>2, <3>3 DEF Wrote
  <2>4. QED
    BY <2>2, <2>3
<1>3. Wrote(pager, pager') /\ jrnl'.safe = jrnl.safe
  BY <1>2 DEF Becomes, Seen
<1>4. Moves
  BY <1>1, <1>3, SamePages, IdleFacts DEF Moves, Wrote
<1>5. QED
  BY <1>1, <1>4, MovesBase, BaseElsewhere, IdleFacts

\* The first step of a commit writes its page 1 at most.
LEMMA CommitPhaseOneBase ==
    ASSUME WholeInv, WholeInv', OwnRecords, OwnRecords', CommitPhaseOne
    PROVE  Base' = Base /\ BaseRight' /\ (pager.eState # "LOCKED" => Moves)
<1>1. pc = Idle /\ db' = db /\ gone' = gone
  BY DEF CommitPhaseOne
<1>2. CASE /\ pager.eState \in {"CACHEMOD", "DBMOD"}
           /\ Becomes(Written(Now, 1, [v |-> ver, n |-> nPage]))
           /\ pc' = At("syncRecords", "commit")
  <2>1. Pair(Now) /\ Now.g = pager
    BY NowIsPair
  <2>2. Wrote(pager, pager') /\ jrnl'.safe = jrnl.safe
    BY <1>2, <2>1, WrittenWrote DEF Becomes, Seen
  <2>3. pc'.at = "syncRecords" /\ pc'.task = "commit"
    BY <1>2 DEF At
  <2>4. Moves
    BY <1>1, <1>2, <2>2, <2>3, SamePages DEF Moves, Wrote
  <2>5. 1 \in DOMAIN pager'.cache
    <3> DEFINE one == 1
               d == [v |-> ver, n |-> nPage]
    <3>1. one \in 1 .. MaxPages /\ Sizes /\ PagerType(pager) /\ Now = [g |-> pager, J |-> jrnl.vis]
      BY Bounds, NowIsPair DEF Sizes
    <3>2. pager' = Written(Now, one, d).g
      BY <1>2 DEF Becomes
    <3> HIDE DEF one, d
    <3>3. \E sync \in BOOLEAN : CacheSet(pager.cache, pager'.cache, one, d, sync)
      BY <1>2, <3>1, <3>2, WrittenEffect
    <3>4. QED
      BY <3>3 DEF CacheSet, one
  <2>6. (pager.dbSize > 0 /\ PagesOf(pager, db.vis) <= pager.dbSize)'
    <3>1. pager'.eState \in {"CACHEMOD", "DBMOD"} /\ pager'.header # 0
      BY <2>3 DEF WholeInv, Flow, Idle
    <3>2. QED
      BY <2>3, <3>1 DEF WholeInv, WriterRight, Opened3
  <2>7. BaseRight'
    BY <2>3, <2>5, <2>6 DEF BaseRight
  <2>8. QED
    BY <2>4, <2>7, MovesBase
<1>3. CASE /\ pager.eState = "LOCKED" /\ pc' = At("finalize", "commit")
           /\ UNCHANGED <<pager, jrnl, ver>>
  <2>1. pc'.at = "finalize" /\ pc'.task = "commit"
    BY <1>3 DEF At
  <2>2. pager.dbSize > 0 /\ PagesOf(pager, db.vis) <= pager.dbSize
    BY <1>3 DEF WholeInv, LockedRight, Begun
  <2>3. (pager.dbSize > 0 /\ PagesOf(pager, db.vis) <= pager.dbSize)'
    BY <1>1, <1>3, <2>2 DEF PagesOf
  <2>4. BaseRight'
    BY <1>3, <2>1, <2>3 DEF BaseRight
  <2>5. QED
    BY <1>1, <1>3, <2>4, SameFiles
<1>4. QED
  BY <1>2, <1>3 DEF CommitPhaseOne

\* sqlite3PagerBegin, which may give an empty database its first page.
LEMMA BeginBase ==
    ASSUME WholeInv, WholeInv', OwnRecords, OwnRecords', Begin
    PROVE  Base' = Base /\ BaseRight' /\ Moves
<1> DEFINE g == [pager EXCEPT !.eState = "LOCKED", !.dbOrigSize = pager.dbSize,
                              !.dbFileSize = pager.dbSize, !.journalOff = 0]
           w == Created(g)
<1>1. pc = Idle /\ pc' = pc /\ db' = db /\ gone' = gone /\ pager.eState = "READER" /\ Becomes(w)
  BY DEF Begin
<1>2. Pair([g |-> pager, J |-> jrnl.vis])
  BY NowIsPair
<1>3. Pair([g |-> g, J |-> jrnl.vis]) /\ g.eState = "LOCKED"
  BY <1>2 DEF Pair, Fields
<1> HIDE DEF g
<1>4. (w.J = jrnl.vis /\ w.g = g) \/ w.g.eState = "CACHEMOD"
  BY <1>3, CreatedFacts DEF Opens
<1> HIDE DEF w
<1>5. /\ (jrnl'.vis = jrnl.vis /\ pager'.eState = "LOCKED") \/ pager'.eState = "CACHEMOD"
      /\ jrnl'.safe = jrnl.safe
  BY <1>1, <1>3, <1>4 DEF Becomes, Seen
<1>6. Moves
  BY <1>1, <1>5, IdleFacts DEF Moves
<1>7. QED
  BY <1>1, <1>6, MovesBase, BaseElsewhere, IdleFacts

\* A statement whose journal cannot be written.
LEMMA ChangeFailsBase ==
    ASSUME WholeInv, WholeInv', OwnRecords, OwnRecords', ChangeFails
    PROVE  Base' = Base /\ BaseRight'
<1> DEFINE o == JournalOpened(pager, jrnl.vis)
<1>1. /\ pc = Idle /\ pc' = At("mustRollBack", "none") /\ db' = db /\ pager.eState \in {"LOCKED", "CACHEMOD", "DBMOD"}
      /\ ver \in Nat
  BY DEF ChangeFails, InStatement, WholeInv, Basics
<1>2. pc'.at = "mustRollBack" /\ pc'.task = "none"
  BY <1>1 DEF At
<1>3. ASSUME jrnl' = Seen(jrnl, Put(o.J, o.g.journalOff + 1, Junk)),
             NEW c, pager' = [o.g EXCEPT !.cache = c]
      PROVE  Base' = Base
  <2>1. jrnl'.safe = jrnl.safe /\ jrnl'.vis = Put(o.J, o.g.journalOff + 1, Junk)
    BY <1>3 DEF Seen
  <2>2. Pair([g |-> pager, J |-> jrnl.vis])
    BY NowIsPair
  <2>3. CASE pager.eState = "LOCKED"
    <3>1. ~MagicAt(jrnl.vis, 1)
      BY <2>3 DEF WholeInv, LockedRight, Begun
    <3>2. o.J = Put(jrnl.vis, 1, Header(FALSE, 0, ver, pager.dbOrigSize)) /\ o.g.journalOff = 1
      BY <2>2, <2>3 DEF JournalOpened, Pair, Fields
    <3>3. Numbered(jrnl.vis)
      BY <2>2 DEF Pair
    <3> DEFINE first == Header(FALSE, 0, ver, pager.dbOrigSize)
               K == o.J
               one == 1
               two == o.g.journalOff + 1
    <3>4. one \in Nat \ {0} /\ K = Put(jrnl.vis, one, first) /\ two \in Nat \ {0} /\ two # 1 /\ one = 1
          /\ jrnl'.vis = Put(K, two, Junk)
      BY <2>1, <3>2
    <3> HIDE DEF first, K, one, two
    <3>5. Numbered(K) /\ Len(K) > 0 /\ K[1] = first
      <4>1. ASSUME NEW f, Numbered(f), NEW i \in Nat \ {0}, i = 1, NEW x
            PROVE  Numbered(Put(f, i, x)) /\ Len(Put(f, i, x)) > 0 /\ Put(f, i, x)[1] = x
        BY <4>1, PutFacts
      <4>2. QED
        BY <3>3, <3>4, <4>1
    <3>5a. jrnl'.vis[1] = first
      BY <3>4, <3>5, PutFacts
    <3>6. ~MagicAt(jrnl'.vis, 1)
      BY <3>5a DEF MagicAt, Header, first
    <3>7. QED
      BY <1>1, <3>1, <3>6, NotHot, NotHotNext
  <2>4. CASE pager.eState # "LOCKED"
    <3>1. o.g = pager
      BY <2>4 DEF JournalOpened
    <3>2. pager'.eState = pager.eState /\ pager'.dbOrigSize = pager.dbOrigSize /\ pager'.journalHdr = pager.journalHdr
      BY <1>3, <2>2, <3>1 DEF Pair, Fields
    <3>3. pager.eState \in Opened3 /\ pager'.eState \in Opened3
      BY <1>1, <2>4, <3>2 DEF Opened3
    <3>4. Untouched(jrnl.vis, pager.journalHdr, pager.dbOrigSize, db.vis, db'.vis)
      BY <1>1, SamePages
    <3>5. QED
      BY <2>1, <3>2, <3>3, <3>4, TailWritten
  <2>5. QED
    BY <2>3, <2>4
<1>4. ASSUME jrnl' = jrnl PROVE Base' = Base
  BY <1>1, <1>4, SameFiles
<1>5. Base' = Base
  BY <1>3, <1>4 DEF ChangeFails
<1>6. QED
  BY <1>2, <1>5, BaseElsewhere

\* What a roll back stores in the file has a record in a whole segment.
LEMMA PlayedUntouched ==
    ASSUME Sizes, NEW g, PagerType(g), NEW J, NEW f, DataFile(f), RecordsRight(g, J), CacheRight(g, J, f),
           NEW n \in Nat, n <= MaxPages, NEW c, Changed(c, n), FromJournal(g, J, c),
           NEW s, s = Stored(f, Latest(c, StoredOf(g, c)))
    PROVE  Untouched(J, g.journalHdr, g.dbOrigSize, f, s)
<1> DEFINE S == StoredOf(g, c)
           h == g.journalHdr
<1>1. S \subseteq DOMAIN c
  BY DEF StoredOf
<1>2. \A p \in 1 .. Len(f) : (\A k \in S : c[k].pgno # p) => s[p] = f[p]
  <2> HIDE DEF S
  <2>1. s = Stored(f, Latest(c, S))
    BY DEF S
  <2>2. QED
    BY <1>1, <2>1, StoredBeyond
<1>3. h \in Nat /\ g.dbOrigSize \in Nat /\ Len(f) \in Nat /\ g.dbOrigSize <= Len(f)
  BY DEF PagerType, Sizes, DataFile, Numbered, CacheRight
<1>4. ASSUME NEW k \in S, c[k].pgno \in 1 .. g.dbOrigSize PROVE \E b \in RecordsIn(J, 1, h) : J[b].pgno = c[k].pgno
  <2>1. k \in DOMAIN c /\ SafeToStore(g, c[k])
    BY DEF StoredOf
  <2>2. CASE k \in Records(g, J) /\ c[k].at = k /\ c[k].pgno = J[k].pgno
    <3>1. k \in Nat /\ k > 0 /\ J[k].kind = "rec"
      BY <2>2 DEF Records, RecordsIn
    <3>2. k <= h
      BY <2>1, <2>2, <3>1 DEF SafeToStore
    <3>3. QED
      BY <1>3, <2>2, <3>1, <3>2 DEF RecordsIn
  <2>3. CASE c[k].at = 0 /\ c[k].pgno \in DOMAIN g.cache /\ (c[k].pgno \in g.pInJournal \/ c[k].pgno > g.dbOrigSize)
    <3>1. ~g.cache[c[k].pgno].sync
      BY <2>1, <2>3 DEF SafeToStore, Flag
    <3>2. c[k].pgno \in g.pInJournal
      BY <1>3, <1>4, <2>3
    <3>3. PICK b \in Records(g, J) : J[b].pgno = c[k].pgno
      BY <3>2 DEF RecordsRight
    <3>4. ~(b > h)
      BY <3>1, <3>3 DEF CacheRight
    <3>5. QED
      BY <1>3, <3>3, <3>4 DEF Records, RecordsIn
  <2>4. QED
    BY <2>1, <2>2, <2>3 DEF FromJournal
<1>5. ASSUME NEW p \in 1 .. g.dbOrigSize PROVE s[p] = f[p] \/ \E b \in RecordsIn(J, 1, h) : J[b].pgno = p
  <2>1. p \in 1 .. Len(f)
    BY <1>3
  <2>2. CASE \A k \in S : c[k].pgno # p
    BY <1>2, <2>1, <2>2
  <2>3. CASE \E k \in S : c[k].pgno = p
    BY <1>4, <2>3
  <2>4. QED
    BY <2>2, <2>3
<1>6. QED
  BY <1>5 DEF Untouched

\* So does some of the changes of a roll back to a savepoint.
LEMMA SavepointUntouched ==
    ASSUME WholeInv, pc = Idle, pager.eState \in {"CACHEMOD", "DBMOD"},
           NEW i \in 1 .. Len(pager.aSavepoint), NEW sp, sp = pager.aSavepoint[i],
           NEW c, DOMAIN c \subseteq DOMAIN SavepointChanges(pager, jrnl.vis, sp),
           \A k \in DOMAIN c : c[k] = SavepointChanges(pager, jrnl.vis, sp)[k]
    PROVE  Untouched(jrnl.vis, pager.journalHdr, pager.dbOrigSize, db.vis, Undone(sp, c).f)
<1> DEFINE g == pager
           J == jrnl.vis
           f == db.vis
           all == SavepointChanges(g, J, sp)
           n == sp.nOrig
           u == Played(Resized(g, n), f, c)
<1>1. Ready(g, J, f, jrnl.safe, ver + 1) /\ Sizes /\ PagerType(g)
  BY ReadyNow, Bounds
<1>2. sp \in Save /\ sp.iSubRec <= Len(g.sub) /\ SaveRight(g, J, f, sp)
  BY <1>1 DEF PagerType, Ready, SavesRight
<1>3. Changed(all, n) /\ OncePerPage(all) /\ FromJournal(g, J, all)
  BY <1>1, <1>2, SavepointChangesFacts
<1> HIDE DEF all
<1>4. n \in Nat /\ n <= MaxPages
  <2>1. n \in 0 .. MaxPages
    BY <1>2 DEF Save
  <2>2. QED
    BY <1>1, <2>1 DEF Sizes
<1>5. DOMAIN c \subseteq DOMAIN all /\ \A k \in DOMAIN c : c[k] = all[k]
  BY DEF all
<1>6. Changed(c, n) /\ FromJournal(g, J, c)
  BY <1>3, <1>4, <1>5, SomeChanges DEF FromJournal
<1>7. u.f = Stored(f, Latest(c, StoredOf(g, c)))
  <2> HIDE DEF n, u
  <2>1. DOMAIN g = Fields /\ u = Played(Resized(g, n), f, c)
    BY <1>1 DEF u, PagerType
  <2>2. QED
    BY <2>1, PlayedIs
<1>8. Undone(sp, c) = u
  BY UndoneIs
<1> HIDE DEF n, u
<1>9. DataFile(f) /\ RecordsRight(g, J) /\ CacheRight(g, J, f)
  BY <1>1 DEF Ready
<1>10. Untouched(J, g.journalHdr, g.dbOrigSize, f, u.f)
  BY <1>1, <1>4, <1>6, <1>7, <1>9, PlayedUntouched
<1>11. QED
  BY <1>8, <1>10

\* What a roll back to a savepoint keeps of the pager.
LEMMA UndoneCore ==
    ASSUME DOMAIN pager = Fields, NEW sp, NEW c
    PROVE  LET g == Undone(sp, c).g
           IN  /\ DOMAIN g = Fields
               /\ g.eState = pager.eState /\ g.dbOrigSize = pager.dbOrigSize /\ g.journalHdr = pager.journalHdr
<1> DEFINE g == [pager EXCEPT !.dbSize = sp.nOrig]
<1>1. /\ DOMAIN g = Fields
      /\ g.eState = pager.eState /\ g.dbOrigSize = pager.dbOrigSize /\ g.journalHdr = pager.journalHdr
  BY DEF Fields
<1>2. Undone(sp, c) = Played(g, db.vis, c)
  BY DEF Undone
<1> HIDE DEF g
<1>3. QED
  BY <1>1, <1>2, PlayedFacts

\* A roll back to a savepoint keeps the committed image,
LEMMA RollbackToBase ==
    ASSUME WholeInv, WholeInv', OwnRecords, OwnRecords', RollbackTo
    PROVE  Base' = Base /\ BaseRight' /\ Moves
<1>1. pc = Idle /\ pc' = pc /\ jrnl' = jrnl /\ gone' = gone /\ pager.eState \in Writer
  BY DEF RollbackTo
<1>2. PICK i \in DOMAIN pager.aSavepoint :
          LET s == UndoneAll(pager.aSavepoint[i])
          IN  pager' = [s.g EXCEPT !.aSavepoint = SubSeq(@, 1, i)] /\ db' = Seen(db, s.f)
  BY DEF RollbackTo
<1> DEFINE sp == pager.aSavepoint[i]
           c == SavepointChanges(pager, jrnl.vis, sp)
           u == Undone(sp, c)
<1>3. UndoneAll(sp) = u
  BY UndoneIs
<1>4. pager' = [u.g EXCEPT !.aSavepoint = SubSeq(@, 1, i)] /\ db'.vis = u.f /\ db'.safe = db.safe
  BY <1>2, <1>3 DEF Seen
<1>5. Sizes /\ PagerType(pager) /\ DOMAIN pager = Fields /\ i \in 1 .. Len(pager.aSavepoint)
  <2>1. Sizes /\ PagerType(pager) /\ DOMAIN pager = Fields
    BY Bounds
  <2>2. pager.aSavepoint \in Seq(Save)
    BY <2>1 DEF PagerType
  <2>3. QED
    BY <1>2, <2>1, <2>2
<1>6. /\ DOMAIN u.g = Fields
      /\ u.g.eState = pager.eState /\ u.g.dbOrigSize = pager.dbOrigSize /\ u.g.journalHdr = pager.journalHdr
  BY <1>5, UndoneCore
<1>7. pager'.eState = pager.eState /\ pager'.dbOrigSize = pager.dbOrigSize /\ pager'.journalHdr = pager.journalHdr
  <2> HIDE DEF u
  <2>1. QED
    BY <1>4, <1>6 DEF Fields
<1>8. Moves
  <2>1. CASE pager.eState = "LOCKED"
    <3>1. Begun(pager, jrnl.vis, db.vis) /\ DataFile(db.vis)
      BY <2>1 DEF WholeInv, LockedRight, Basics
    <3>2. sp.nOrig = pager.dbSize /\ sp.iHdrOffset = 0 /\ sp.iOffset = 1 /\ sp.iSubRec = 0
      BY <1>5, <3>1 DEF Begun, SavesFresh
    <3>3. DOMAIN c = {}
      BY <3>1, <3>2, NothingRead
    <3>4. u = Played(Resized(pager, pager.dbSize), db.vis, c)
      BY <3>2, UndoneIs
    <3> HIDE DEF c, u
    <3>5. DataFile(u.f) /\ Len(u.f) = Len(db.vis) /\ \A p \in 1 .. Len(db.vis) : u.f[p] = db.vis[p]
      BY <1>5, <3>1, <3>3, <3>4, NothingUndone
    <3>6. u.f = db.vis
      BY <3>1, <3>5, SameFile DEF DataFile
    <3>7. QED
      BY <1>1, <1>4, <1>7, <2>1, <3>6, IdleFacts DEF Moves
  <2>2. CASE pager.eState # "LOCKED"
    <3>1. pager.eState \in {"CACHEMOD", "DBMOD"}
      BY <1>1, <2>2 DEF WholeInv, Flow, Idle, Writer
    <3>2. Untouched(jrnl.vis, pager.journalHdr, pager.dbOrigSize, db.vis, u.f)
      <4> HIDE DEF sp
      <4>1. sp = pager.aSavepoint[i]
        BY DEF sp
      <4>2. QED
        BY <1>1, <1>5, <3>1, <4>1, SavepointUntouched
    <3> HIDE DEF u
    <3>3. QED
      BY <1>1, <1>4, <1>7, <3>1, <3>2, IdleFacts DEF Moves
  <2>3. QED
    BY <2>1, <2>2
<1>9. QED
  BY <1>1, <1>8, MovesBase, BaseElsewhere, IdleFacts

\* also when it fails,
LEMMA RollbackToFailsBase ==
    ASSUME WholeInv, WholeInv', OwnRecords, OwnRecords', RollbackToFails
    PROVE  Base' = Base /\ BaseRight'
<1>1. pc = Idle /\ pc'.at = "mustRollBack" /\ pc'.task = "none" /\ jrnl' = jrnl /\ pager.eState \in Writer
  BY DEF RollbackToFails, At
<1>2. PICK i \in DOMAIN pager.aSavepoint :
          LET sp == pager.aSavepoint[i]
              all == SavepointChanges(pager, jrnl.vis, sp)
          IN  \E n \in DOMAIN all :
                  /\ pager' = [Undone(sp, Before(all, n)).g EXCEPT !.aSavepoint = SubSeq(@, 1, i),
                                   !.journalOff = IF all[n].at > 0 THEN all[n].at ELSE @]
                  /\ db' = Seen(db, Undone(sp, Before(all, n)).f)
  BY DEF RollbackToFails
<1> DEFINE sp == pager.aSavepoint[i]
           all == SavepointChanges(pager, jrnl.vis, sp)
<1>3. PICK n \in DOMAIN all :
          /\ pager' = [Undone(sp, Before(all, n)).g EXCEPT !.aSavepoint = SubSeq(@, 1, i),
                           !.journalOff = IF all[n].at > 0 THEN all[n].at ELSE @]
          /\ db' = Seen(db, Undone(sp, Before(all, n)).f)
  BY <1>2
<1> DEFINE c == Before(all, n)
           u == Undone(sp, c)
           off == IF all[n].at > 0 THEN all[n].at ELSE u.g.journalOff
<1>4. pager' = [u.g EXCEPT !.aSavepoint = SubSeq(@, 1, i), !.journalOff = off] /\ db'.vis = u.f
  BY <1>3 DEF Seen
<1>5. Sizes /\ PagerType(pager) /\ DOMAIN pager = Fields /\ i \in 1 .. Len(pager.aSavepoint)
  <2>1. Sizes /\ PagerType(pager) /\ DOMAIN pager = Fields
    BY Bounds
  <2>2. pager.aSavepoint \in Seq(Save)
    BY <2>1 DEF PagerType
  <2>3. QED
    BY <1>2, <2>1, <2>2
<1>6. pager.eState \in {"CACHEMOD", "DBMOD"}
  <2>1. ASSUME pager.eState = "LOCKED" PROVE FALSE
    <3>1. Begun(pager, jrnl.vis, db.vis)
      BY <2>1 DEF WholeInv, LockedRight
    <3>2. sp.iHdrOffset = 0 /\ sp.iOffset = 1 /\ sp.iSubRec = 0
      BY <1>5, <3>1 DEF Begun, SavesFresh
    <3>3. DOMAIN all = {}
      BY <3>1, <3>2, NothingRead
    <3>4. QED
      BY <3>3
  <2>2. QED
    BY <1>1, <2>1 DEF WholeInv, Flow, Idle, Writer
<1>7. Untouched(jrnl.vis, pager.journalHdr, pager.dbOrigSize, db.vis, u.f)
  <2>1. DOMAIN c \subseteq DOMAIN all /\ \A k \in DOMAIN c : c[k] = all[k]
    BY BeforeFacts
  <2> HIDE DEF sp, c
  <2>2. sp = pager.aSavepoint[i]
    BY DEF sp
  <2>3. QED
    BY <1>1, <1>5, <1>6, <2>1, <2>2, SavepointUntouched
<1>8. /\ DOMAIN u.g = Fields
      /\ u.g.eState = pager.eState /\ u.g.dbOrigSize = pager.dbOrigSize /\ u.g.journalHdr = pager.journalHdr
  BY <1>5, UndoneCore
<1> HIDE DEF u, off
<1>9. pager'.eState = pager.eState /\ pager'.dbOrigSize = pager.dbOrigSize /\ pager'.journalHdr = pager.journalHdr
  BY <1>4, <1>8 DEF Fields
<1>10. pager.eState \in Opened3 /\ pager'.eState \in Opened3
  BY <1>6, <1>9 DEF Opened3
<1>11. Base' = Base
  BY <1>1, <1>4, <1>7, <1>9, <1>10, TailWritten
<1>12. QED
  BY <1>1, <1>11, BaseElsewhere, IdleFacts

\* The journal that the first write of RollbackToStart finds is read as its own records.
LEMMA StartBlocks ==
    ASSUME WholeInv, pc = Idle, pager.eState \in {"CACHEMOD", "DBMOD"}
    PROVE  Blocks(jrnl.vis, 1, pager.journalOff, InProgress(pager), FALSE) = Records(pager, jrnl.vis)
<1> DEFINE g == pager
           J == jrnl.vis
           from == 1
           last == LastOf(g)
<1>1. Ready(g, J, db.vis, jrnl.safe, ver + 1)
  BY ReadyNow
<1>2. PagerType(g) /\ JournalFile(J, ver + 1) /\ Layout(g, J) /\ HeaderRight(g, J) /\ g.header # 0
  BY <1>1 DEF Ready, HeaderRight
<1>3. last \in Nat /\ last <= Len(J) /\ g.journalHdr \in Nat /\ g.journalOff = last /\ last > 0
  BY <1>1, ReadyEnd DEF Ready, Layout
<1>4. from \in 1 .. g.journalHdr + 1 /\ from <= last /\ LastOf(g) <= last /\ J[from].kind = "hdr"
  BY <1>2, <1>3 DEF Layout
<1>5. g.header = 0 => ~setting.aligned
  BY <1>2
<1> HIDE DEF from, last
<1>6. Blocks(J, from, last, InProgress(g), FALSE) = RecordsIn(J, from, LastOf(g))
  BY <1>2, <1>3, <1>4, <1>5, OwnBlocks
<1>7. QED
  BY <1>3, <1>6 DEF from, Records

\* and a roll back of all savepoints.
LEMMA RollbackToStartBase ==
    ASSUME WholeInv, WholeInv', OwnRecords, OwnRecords', RollbackToStart
    PROVE  Base' = Base /\ BaseRight' /\ Moves
<1> DEFINE g == pager
           J == jrnl.vis
           f == db.vis
           n == g.dbOrigSize
           u == UndoneToStart
           x == [u.g EXCEPT !.aSavepoint = <<>>]
           w == Created(x)
<1>1. pc = Idle /\ pc' = pc /\ g.eState \in Writer /\ Becomes(w) /\ db'.vis = u.f /\ db'.safe = db.safe /\ gone' = gone
  BY DEF RollbackToStart, Seen
<1>2. Sizes /\ PagerType(g) /\ DOMAIN g = Fields /\ DataFile(f) /\ JournalFile(J, ver)
  BY Bounds DEF WholeInv, Basics
<1>3. /\ DOMAIN u.g = Fields
      /\ u.g.eState = g.eState /\ u.g.dbOrigSize = n /\ u.g.journalOff = g.journalOff /\ u.g.journalHdr = g.journalHdr
  BY <1>2, UndoneToStartFacts
<1>4. u = IF ~g.jfd THEN [g |-> g, f |-> f]
          ELSE Played(Resized(g, n), f, Changes(J, Blocks(J, 1, g.journalOff, InProgress(g), FALSE), n))
  BY DEF UndoneToStart, Resized
<1> HIDE DEF u
<1>5. /\ DOMAIN x = Fields
      /\ x.eState = g.eState /\ x.dbOrigSize = n /\ x.journalOff = g.journalOff /\ x.journalHdr = g.journalHdr
  BY <1>3 DEF Fields
<1> HIDE DEF x
<1>6. Pair([g |-> x, J |-> J])
  BY <1>5, NowIsPair DEF Pair
<1>7. /\ x.eState # "LOCKED" => Follows([g |-> x, J |-> J], w)
      /\ x.eState = "LOCKED" => (w.g = x /\ w.J = J) \/ Opens(w)
  BY <1>6, CreatedFacts
<1> HIDE DEF w
<1>8. jrnl'.safe = jrnl.safe
  BY <1>1 DEF Becomes, Seen
<1>9. Moves
  <2>1. CASE g.eState = "LOCKED"
    <3>1. Begun(g, J, f) /\ n = g.dbSize /\ g.journalOff = 0
      BY <2>1 DEF WholeInv, LockedRight, Begun
    <3>2. u.f = f
      <4>1. CASE ~g.jfd
        BY <1>4, <4>1
      <4>2. CASE g.jfd
        <5> DEFINE c == Changes(J, Blocks(J, 1, g.journalOff, InProgress(g), FALSE), n)
        <5>1. DOMAIN c = {}
          BY <3>1 DEF Changes, Blocks
        <5>2. u = Played(Resized(g, g.dbSize), f, c)
          BY <1>4, <3>1, <4>2
        <5> HIDE DEF c
        <5>3. DataFile(u.f) /\ Len(u.f) = Len(f) /\ \A p \in 1 .. Len(f) : u.f[p] = f[p]
          BY <1>2, <3>1, <5>1, <5>2, NothingUndone
        <5>4. QED
          BY <1>2, <5>3, SameFile DEF DataFile
      <4>3. QED
        BY <4>1, <4>2
    <3>3. (jrnl'.vis = J /\ pager'.eState = "LOCKED") \/ pager'.eState = "CACHEMOD"
      BY <1>1, <1>5, <1>7, <2>1 DEF Becomes, Seen, Opens
    <3>4. QED
      BY <1>1, <1>8, <2>1, <3>2, <3>3, IdleFacts DEF Moves
  <2>2. CASE g.eState # "LOCKED"
    <3>1. g.eState \in {"CACHEMOD", "DBMOD"}
      BY <1>1, <2>2 DEF WholeInv, Flow, Idle, Writer
    <3>2. Ready(g, J, f, jrnl.safe, ver + 1)
      BY <1>1, <3>1, ReadyNow
    <3>3. g.jfd = TRUE /\ RecordsRight(g, J) /\ CacheRight(g, J, f) /\ LastOf(g) \in Nat /\ LastOf(g) <= Len(J)
      BY <3>2, ReadyEnd DEF Ready, Layout
    <3> DEFINE c == Changes(J, Records(g, J), n)
    <3>4. u = Played(Resized(g, n), f, c)
      BY <1>1, <1>4, <3>1, <3>3, StartBlocks
    <3>5. n \in Nat /\ n <= MaxPages
      BY <1>2 DEF PagerType, Sizes
    <3>6. Changed(c, n) /\ FromJournal(g, J, c)
      <4>1. RecordBlocks(J, Records(g, J))
        <5>1. Len(J) \in Nat
          BY <1>2 DEF JournalFile, Numbered
        <5>2. QED
          BY <3>3, <5>1 DEF RecordBlocks, Records, RecordsIn
      <4>2. Changed(c, n) /\ ReadFrom(c, J, Records(g, J), n)
        BY <1>2, <3>5, <4>1, ChangesFacts
      <4> HIDE DEF c
      <4>3. QED
        BY <4>2 DEF FromJournal, ReadFrom
    <3> HIDE DEF c
    <3>7. u.f = Stored(f, Latest(c, StoredOf(g, c)))
      BY <1>2, <3>4, PlayedIs
    <3>8. Untouched(J, g.journalHdr, n, f, u.f)
      BY <1>2, <3>3, <3>5, <3>6, <3>7, PlayedUntouched
    <3>9. pager'.eState = g.eState /\ pager'.dbOrigSize = n /\ pager'.journalHdr = g.journalHdr
      BY <1>1, <1>5, <1>7, <2>2 DEF Becomes, Follows
    <3>10. QED
      BY <1>1, <1>8, <3>1, <3>8, <3>9, IdleFacts DEF Moves
  <2>3. QED
    BY <2>1, <2>2
<1>10. QED
  BY <1>1, <1>9, MovesBase, BaseElsewhere, IdleFacts

\* The records of the next state are its own only if those of this state are.
LEMMA OwnBefore ==
    ASSUME WholeInv, [Next]_vars, OwnRecords'
    PROVE  OwnRecords
<1>1. faults \in Nat
  BY DEF WholeInv, Basics
<1>2. faults' \in {faults, faults + 1} /\ setting' = setting
  BY <1>1, FaultsAreCounted
<1>3. QED
  BY <1>1, <1>2 DEF OwnRecords

\* Savepoints, the start of a spill and the release of the locks touch no file.
LEMMA QuietBase ==
    ASSUME OpenSavepoint \/ Release \/ Spill \/ Unlock
    PROVE  Base' = Base /\ BaseRight'
<1>1. db' = db /\ jrnl' = jrnl
  BY DEF OpenSavepoint, Release, Spill, Unlock
<1>2. pc'.task \in {"none", "spill"}
  <2>1. CASE Spill
    BY <2>1 DEF Spill
  <2>2. CASE OpenSavepoint \/ Release \/ Unlock
    <3>1. pc = Idle /\ pc' = pc
      BY <2>2 DEF OpenSavepoint, Release, Unlock
    <3>2. QED
      BY <3>1, IdleFacts
  <2>3. QED
    BY <2>1, <2>2
<1>3. QED
  BY <1>1, <1>2, SameFiles, BaseElsewhere

\* The start of a roll back: before the first write there is nothing to play back.
LEMMA RollbackBase ==
    ASSUME WholeInv, WholeInv', Rollback
    PROVE  Base' = Base /\ BaseRight'
<1>1. db' = db /\ jrnl' = jrnl /\ pager' = pager
      /\ pc' = At(IF pager.eState = "LOCKED" THEN "finalize" ELSE "playback", "rollback")
  BY DEF Rollback
<1>2. Base' = Base
  BY <1>1, SameFiles
<1>3. CASE pager.eState = "LOCKED"
  <2>1. ~MagicAt(jrnl.vis, 1)
    BY <1>3 DEF WholeInv, LockedRight, Begun
  <2>2. Base' = FileImage(db'.vis)
    BY <1>1, <2>1, NotHotNext
  <2>3. pc'.task = "rollback"
    BY <1>1 DEF At
  <2>4. BaseRight'
    BY <2>2, <2>3 DEF BaseRight
  <2>5. QED
    BY <1>2, <2>4
<1>4. CASE pager.eState # "LOCKED"
  <2>1. pc'.task = "rollback" /\ pc'.at = "playback"
    BY <1>1, <1>4 DEF At
  <2>2. QED
    BY <1>2, <2>1, BaseElsewhere
<1>5. QED
  BY <1>3, <1>4

\* A call that fails leaves nothing under way.
LEMMA FailedBase ==
    ASSUME NEW g, Failed(g)
    PROVE  BaseRight'
<1>1. pc'.task = "none"
  BY IdleFacts DEF Failed, At
<1>2. QED
  BY <1>1, BaseElsewhere

\* The sync of the database file touches neither file.
LEMMA SyncDbBase ==
    ASSUME WholeInv, OwnRecords, OwnRecords', BaseRight, SyncDb
    PROVE  Base' = Base /\ BaseRight'
<1>1. jrnl' = jrnl /\ db'.vis = db.vis
  BY DEF SyncDb, Synced
<1>2. Base' = Base
  BY <1>1, SameFiles
<1>3. CASE Failed(pager)
  BY <1>2, <1>3, FailedBase
<1>4. CASE /\ pager' = IF pc.task = "commit" THEN [pager EXCEPT !.eState = "FINISHED"] ELSE pager
           /\ Goto("finalize")
  <2>1. pc'.at = "finalize" /\ pc'.task = pc.task
    BY <1>4 DEF Goto, WholeInv, Basics
  <2>2. pc.at = "syncDb" /\ DOMAIN pager = Fields
    BY Bounds DEF SyncDb
  <2>3. pager'.dbSize = pager.dbSize /\ pager'.cache = pager.cache /\ pc.task # "end"
    BY <1>4, <2>2 DEF Fields, WholeInv, Flow, Idle
  <2>4. CASE pc.task = "commit"
    <3>1. pager.eState = "DBMOD"
      BY <2>2, <2>4 DEF WholeInv, Flow, Idle
    <3>2. pager.dbSize > 0 /\ PagesOf(pager, db.vis) <= pager.dbSize /\ 1 \in DOMAIN pager.cache
      BY <2>4, <3>1 DEF BaseRight
    <3>3. (pager.dbSize > 0 /\ PagesOf(pager, db.vis) <= pager.dbSize /\ 1 \in DOMAIN pager.cache)'
      BY <1>1, <2>3, <3>2 DEF PagesOf
    <3>4. QED
      BY <1>2, <2>1, <2>4, <3>3 DEF BaseRight
  <2>5. CASE pc.task # "commit"
    <3>1. pc.task \in {"rollback", "recover"} => Base = FileImage(db.vis)
      BY <2>2 DEF BaseRight
    <3>2. (pc.task \in {"rollback", "recover"} => Base = FileImage(db.vis))'
      BY <1>1, <1>2, <2>1, <3>1
    <3>3. QED
      BY <1>2, <2>1, <2>3, <2>5, <3>2 DEF BaseRight
  <2>6. QED
    BY <2>4, <2>5
<1>5. QED
  BY <1>3, <1>4 DEF SyncDb

\* A commit under way goes on with the same pages.
LEMMA CommitCarried ==
    ASSUME OwnRecords, BaseRight, pc.task = "commit", pager.eState # "LOCKED", pc'.task = "commit",
           pager'.dbSize = pager.dbSize, PagesOf(pager', db'.vis) = PagesOf(pager, db.vis),
           DOMAIN pager'.cache = DOMAIN pager.cache
    PROVE  BaseRight'
<1>1. pager.dbSize > 0 /\ PagesOf(pager, db.vis) <= pager.dbSize /\ 1 \in DOMAIN pager.cache
  BY DEF BaseRight
<1>2. (pager.dbSize > 0 /\ PagesOf(pager, db.vis) <= pager.dbSize /\ 1 \in DOMAIN pager.cache)'
  BY <1>1
<1>3. QED
  BY <1>2 DEF BaseRight

\* The first sync of syncJournal.
LEMMA SyncRecordsBase ==
    ASSUME WholeInv, WholeInv', OwnRecords, OwnRecords', BaseRight, SyncRecords
    PROVE  Base' = Base /\ BaseRight' /\ \A i \in 1 .. pager.journalHdr : jrnl'.vis[i] = jrnl.vis[i]
<1> DEFINE J == jrnl.vis
           K == jrnl'.vis
           h == pager.journalHdr
           next == pager.journalOff + 1
<1>1. /\ pc.at = "syncRecords" /\ db' = db /\ setting' = setting /\ ver' = ver /\ K = NoStaleHeader(J)
      /\ (Goto("writeCount") /\ pager' = pager) \/ Failed(pager)
  BY DEF SyncRecords, Seen
<1>2. /\ pc.task \in {"spill", "commit"} /\ pager.eState \in {"CACHEMOD", "DBMOD"}
      /\ Layout(pager, J) /\ CacheRight(pager, J, db.vis)
      /\ next = LastOf(pager) + 1 /\ h \in Nat /\ pager.nRec \in Nat /\ pager.header = h + 1
      /\ LastOf(pager) = h + 1 + pager.nRec /\ LastOf(pager) <= Len(J) /\ ~J[pager.header].magic
  BY <1>1, SyncingFacts
<1>3. JournalFile(J, ver) /\ DataFile(db.vis) /\ DOMAIN pc = {"at", "task", "page"}
  BY DEF WholeInv, Basics
<1>4. JournalFile(K, ver)
  <2>1. (JournalFile(jrnl.vis, ver))'
    BY DEF WholeInv, Basics
  <2>2. QED
    BY <1>1, <2>1, CarriedTypes
<1>5. Numbered(J) /\ Len(J) \in Nat /\ DOMAIN J = 1 .. Len(J) /\ pager.journalOff \in Nat /\ pager.journalOff # 0
  <2>1. Numbered(J)
    BY <1>3 DEF JournalFile
  <2>2. pager.journalOff \in Nat /\ pager.journalOff > 0
    BY <1>2, Bounds DEF PagerType, Layout
  <2>3. QED
    BY <2>1, <2>2, NumberedDomain
<1>6. Len(K) = Len(J)
  BY <1>1, <1>5, NoStaleHeaderFacts
<1>7. \A i \in 1 .. Len(J) : i # next => K[i] = J[i]
  BY <1>1, <1>5 DEF NoStaleHeader
<1>8. \A i \in 1 .. h + 1 : i \in 1 .. Len(J) /\ i # next
  BY <1>2, <1>5
<1>9. /\ h < Len(K) /\ K[h + 1] = J[h + 1] /\ K[1] = J[1] /\ \A i \in 1 .. h : K[i] = J[i]
  <2>1. h + 1 \in 1 .. h + 1 /\ 1 \in 1 .. h + 1 /\ \A i \in 1 .. h : i \in 1 .. h + 1
    BY <1>2
  <2>2. QED
    BY <1>2, <1>5, <1>6, <1>7, <1>8, <2>1
<1>10. ~MagicAt(K, h + 1) /\ K[1].kind = "hdr"
  BY <1>2, <1>9 DEF MagicAt, Layout
<1>11. /\ pager.dbOrigSize <= Len(db'.vis) /\ (h = 0 => Len(db'.vis) = pager.dbOrigSize) /\ DataFile(db'.vis)
       /\ Untouched(J, h, pager.dbOrigSize, db.vis, db'.vis) /\ pager.eState \in Opened3
  BY <1>1, <1>2, <1>3, SamePages DEF CacheRight, Layout, Opened3
<1>12. Base' = Base
  BY <1>1, <1>4, <1>9, <1>10, <1>11, FileWritten
<1>13. BaseRight'
  <2>1. CASE Goto("writeCount") /\ pager' = pager
    <3>1. pc'.task = pc.task
      BY <1>3, <2>1 DEF Goto
    <3>2. PagesOf(pager', db'.vis) = PagesOf(pager, db.vis)
      BY <1>1, <2>1
    <3>3. QED
      BY <1>2, <2>1, <3>1, <3>2, BaseElsewhere, CommitCarried
  <2>2. QED
    BY <1>1, <2>1, FailedBase
<1>14. QED
  BY <1>9, <1>12, <1>13

\* The write of the record count.
LEMMA WriteCountBase ==
    ASSUME WholeInv, WholeInv', OwnRecords, OwnRecords', BaseRight, WriteCount
    PROVE  Base' = Base /\ BaseRight'
<1>1. /\ pc.at = "writeCount" /\ db' = db
      /\ \/ jrnl'.safe = jrnl.safe /\ Goto("syncCount") /\ pager' = pager
         \/ Failed(pager) /\ jrnl' = jrnl
  <2>1. \A K : Seen(jrnl, K).safe = jrnl.safe
    BY DEF Seen
  <2>2. QED
    BY <2>1 DEF WriteCount
<1>2. pc.task \in {"spill", "commit"} /\ pager.eState \in {"CACHEMOD", "DBMOD"}
  BY <1>1, SyncingFacts
<1>3. CASE jrnl'.safe = jrnl.safe /\ Goto("syncCount") /\ pager' = pager
  <2>1. pc'.task = pc.task
    BY <1>3 DEF Goto, WholeInv, Basics
  <2>2. PagesOf(pager', db'.vis) = PagesOf(pager, db.vis)
    BY <1>1, <1>3
  <2>3. BaseRight'
    BY <1>2, <1>3, <2>1, <2>2, BaseElsewhere, CommitCarried
  <2>4. Base' = Base
    BY <1>1, <1>2, <1>3, SamePages, TailWritten DEF Opened3
  <2>5. QED
    BY <2>3, <2>4
<1>4. CASE Failed(pager) /\ jrnl' = jrnl
  BY <1>1, <1>4, SameFiles, FailedBase
<1>5. QED
  BY <1>1, <1>3, <1>4

\* The sync of the record count starts the next segment of the journal behind the whole ones.
LEMMA SyncCountDoes ==
    ASSUME WholeInv, SyncCount
    PROVE  \/ /\ pager'.eState = "DBMOD" /\ pager'.dbOrigSize = pager.dbOrigSize /\ pager'.journalHdr = pager.journalOff
              /\ pager'.dbSize = pager.dbSize /\ pager'.cache = NoSyncFlags(pager.cache)
              /\ \A i \in 1 .. pager.journalOff : jrnl'.vis[i] = jrnl.vis[i]
              /\ Goto("writePages")
           \/ Failed(pager) /\ jrnl' = jrnl
<1> DEFINE J == jrnl.vis
           K == jrnl'.vis
           last == pager.journalOff
           synced == [pager EXCEPT !.journalHdr = last, !.cache = NoSyncFlags(@), !.eState = "DBMOD"]
<1>1. pc.at = "syncCount"
  BY DEF SyncCount
<1>2. pc.task \in {"spill", "commit"} /\ last = LastOf(pager) /\ last \in Nat /\ last <= Len(J)
  BY <1>1, SyncingFacts
<1>3. Numbered(J) /\ Len(J) \in Nat /\ DOMAIN pager = Fields
  BY Bounds DEF WholeInv, Basics, JournalFile, Numbered, PagerType
<1>4. \/ /\ pager'.eState = "DBMOD" /\ pager'.dbOrigSize = pager.dbOrigSize /\ pager'.journalHdr = last
         /\ pager'.dbSize = pager.dbSize /\ pager'.cache = NoSyncFlags(pager.cache)
         /\ pc.task = "spill" => K = Put(J, last + 1, Header(FALSE, 0, ver, pager.dbOrigSize))
         /\ pc.task = "commit" => K = J
         /\ Goto("writePages")
      \/ Failed(pager) /\ jrnl' = jrnl
  <2>1. /\ synced.eState = "DBMOD" /\ synced.dbOrigSize = pager.dbOrigSize /\ synced.journalHdr = last
        /\ synced.dbSize = pager.dbSize /\ synced.cache = NoSyncFlags(pager.cache) /\ DOMAIN synced = Fields
    BY <1>3 DEF Fields
  <2>2. CASE pc.task = "spill"
    <3> DEFINE saves == [i \in DOMAIN synced.aSavepoint |->
                            IF synced.aSavepoint[i].iHdrOffset = 0 THEN [synced.aSavepoint[i] EXCEPT !.iHdrOffset = last]
                            ELSE synced.aSavepoint[i]]
    <3>1. \/ /\ pager' = [synced EXCEPT !.nRec = 0, !.nonce = ver, !.journalOff = last + 1, !.header = last + 1,
                                         !.aSavepoint = saves]
             /\ jrnl' = [vis |-> Put(J, last + 1, Header(FALSE, 0, ver, pager.dbOrigSize)), safe |-> J]
             /\ Goto("writePages")
          \/ Failed(pager) /\ jrnl' = jrnl
      BY <2>2 DEF SyncCount
    <3> HIDE DEF saves
    <3> HIDE DEF synced
    <3>2. ASSUME NEW s, pager' = [synced EXCEPT !.nRec = 0, !.nonce = ver, !.journalOff = last + 1, !.header = last + 1,
                                                !.aSavepoint = s]
          PROVE  /\ pager'.eState = synced.eState /\ pager'.dbOrigSize = synced.dbOrigSize
                 /\ pager'.journalHdr = synced.journalHdr /\ pager'.dbSize = synced.dbSize /\ pager'.cache = synced.cache
      BY <2>1, <3>2 DEF Fields
    <3>3. CASE Failed(pager) /\ jrnl' = jrnl
      BY <3>3
    <3>4. CASE /\ pager' = [synced EXCEPT !.nRec = 0, !.nonce = ver, !.journalOff = last + 1, !.header = last + 1,
                                          !.aSavepoint = saves]
               /\ jrnl' = [vis |-> Put(J, last + 1, Header(FALSE, 0, ver, pager.dbOrigSize)), safe |-> J]
               /\ Goto("writePages")
      <4>1. K = Put(J, last + 1, Header(FALSE, 0, ver, pager.dbOrigSize))
        BY <3>4
      <4>2. /\ pager'.eState = synced.eState /\ pager'.dbOrigSize = synced.dbOrigSize
            /\ pager'.journalHdr = synced.journalHdr /\ pager'.dbSize = synced.dbSize /\ pager'.cache = synced.cache
        BY <3>2, <3>4
      <4>3. QED
        BY <2>1, <2>2, <3>4, <4>1, <4>2
    <3>5. QED
      BY <3>1, <3>3, <3>4
  <2>3. CASE pc.task = "commit"
    <3>1. \/ pager' = [synced EXCEPT !.header = 0] /\ jrnl' = Synced(jrnl) /\ Goto("writePages")
          \/ Failed(pager) /\ jrnl' = jrnl
      BY <2>3 DEF SyncCount
    <3> HIDE DEF synced
    <3>2. pager' = [synced EXCEPT !.header = 0] =>
              /\ pager'.eState = synced.eState /\ pager'.dbOrigSize = synced.dbOrigSize
              /\ pager'.journalHdr = synced.journalHdr /\ pager'.dbSize = synced.dbSize /\ pager'.cache = synced.cache
      BY <2>1 DEF Fields
    <3>3. QED
      BY <2>1, <2>3, <3>1, <3>2 DEF Synced
  <2>4. QED
    BY <1>2, <2>2, <2>3
<1> HIDE DEF synced
<1>5. CASE /\ pager'.eState = "DBMOD" /\ pager'.dbOrigSize = pager.dbOrigSize /\ pager'.journalHdr = last
           /\ pager'.dbSize = pager.dbSize /\ pager'.cache = NoSyncFlags(pager.cache)
           /\ pc.task = "spill" => K = Put(J, last + 1, Header(FALSE, 0, ver, pager.dbOrigSize))
           /\ pc.task = "commit" => K = J
           /\ Goto("writePages")
  <2>1. CASE pc.task = "spill"
    <3> DEFINE i == last + 1
               x == Header(FALSE, 0, ver, pager.dbOrigSize)
    <3>1. i \in Nat /\ i > 0 /\ i <= Len(J) + 1 /\ K = Put(J, i, x)
      <4>1. K = Put(J, i, x)
        BY <1>5, <2>1
      <4>2. QED
        BY <1>2, <1>3, <4>1
    <3> HIDE DEF i, x
    <3>2. \A k \in 1 .. Len(J) : k # i => K[k] = J[k]
      BY <1>3, <3>1, PutBlock
    <3>3. \A k \in 1 .. last : K[k] = J[k]
      BY <1>2, <1>3, <3>2 DEF i
    <3>4. QED
      BY <1>5, <3>3
  <2>2. QED
    BY <1>2, <1>5, <2>1
<1>6. QED
  BY <1>4, <1>5

\* The sync of the record count: the segment that becomes whole has the pages of the file.
LEMMA SyncCountBase ==
    ASSUME WholeInv, WholeInv', OwnRecords, OwnRecords', BaseRight, SyncCount
    PROVE  Base' = Base /\ BaseRight'
<1> DEFINE J == jrnl.vis
           K == jrnl'.vis
           h == pager.journalHdr
           last == pager.journalOff
<1>1. pc.at = "syncCount" /\ db' = db
  BY DEF SyncCount
<1>2. /\ pc.task \in {"spill", "commit"} /\ pager.eState \in {"CACHEMOD", "DBMOD"}
      /\ ContentRight(pager, J, db.vis)
      /\ last = LastOf(pager) /\ h \in Nat /\ pager.nRec \in Nat
      /\ LastOf(pager) = h + 1 + pager.nRec /\ last \in Nat /\ last <= Len(J)
  BY <1>1, SyncingFacts
<1>3. Numbered(J) /\ Len(J) \in Nat /\ DOMAIN pc = {"at", "task", "page"} /\ DOMAIN pager = Fields /\ CacheType(pager.cache)
  BY Bounds DEF WholeInv, Basics, JournalFile, Numbered, PagerType
<1>5. CASE Failed(pager) /\ jrnl' = jrnl
  BY <1>1, <1>5, SameFiles, FailedBase
<1>6. CASE /\ pager'.eState = "DBMOD" /\ pager'.dbOrigSize = pager.dbOrigSize /\ pager'.journalHdr = last
           /\ pager'.dbSize = pager.dbSize /\ pager'.cache = NoSyncFlags(pager.cache)
           /\ \A i \in 1 .. last : K[i] = J[i]
           /\ Goto("writePages")
  <2>1. \A i \in 1 .. last : K[i] = J[i]
    BY <1>6
  <2>2. \A b \in RecordsIn(K, 1, last) : b > h => K[b].data = db.vis[K[b].pgno]
    <3>1. \A b \in RecordsIn(K, 1, last) : K[b] = J[b] /\ b \in Records(pager, J)
      BY <1>2, <2>1 DEF RecordsIn, Records
    <3>2. QED
      BY <1>2, <3>1 DEF ContentRight
  <2>3. h <= last /\ \A i \in 1 .. h : K[i] = J[i]
    BY <1>2, <2>1
  <2>4. Base' = Base
    BY <1>1, <1>2, <1>6, <2>2, <2>3, SamePages, SameOriginal DEF Opened3
  <2>5. pc'.task = pc.task
    BY <1>3, <1>6 DEF Goto
  <2>6. DOMAIN pager'.cache = DOMAIN pager.cache /\ \A p \in DOMAIN pager.cache : pager'.cache[p].data = pager.cache[p].data
    <3> DEFINE c == pager.cache
               d == NoSyncFlags(c)
    <3>1. DOMAIN d = DOMAIN c /\ \A p \in DOMAIN c : d[p].data = c[p].data
      BY <1>3, NoSyncFacts
    <3>2. QED
      BY <1>6, <3>1
  <2>7. PagesOf(pager', db'.vis) = PagesOf(pager, db.vis)
    BY <1>1, <1>6, <2>6 DEF PagesOf, Get
  <2>8. BaseRight'
    BY <1>2, <1>6, <2>5, <2>6, <2>7, BaseElsewhere, CommitCarried
  <2>9. QED
    BY <2>4, <2>8
<1>7. QED
  BY <1>5, <1>6, SyncCountDoes

\* Pages written to the file that wait for no sync have no record behind the whole segments.
LEMMA OutUntouched ==
    ASSUME Sizes, NEW g, PagerType(g), NEW J, NEW f, DataFile(f), RecordsRight(g, J), CacheRight(g, J, f), ContentRight(g, J, f),
           NEW S, S \subseteq {p \in DOMAIN g.cache : p <= g.dbSize /\ ~g.cache[p].sync},
           NEW s, s = Stored(f, [p \in S |-> g.cache[p].data])
    PROVE  Untouched(J, g.journalHdr, g.dbOrigSize, f, s)
<1> DEFINE pages == [p \in S |-> g.cache[p].data]
           h == g.journalHdr
<1>1. /\ h \in Nat /\ g.dbOrigSize \in Nat /\ Len(f) \in Nat /\ g.dbOrigSize <= Len(f) /\ Numbered(f)
      /\ DOMAIN g.cache \subseteq 1 .. MaxPages /\ MaxPages \in Nat
  BY DEF PagerType, CacheType, Sizes, DataFile, Numbered, CacheRight
<1>2. DOMAIN pages = S /\ S \subseteq 1 .. MaxPages /\ \A p \in S : pages[p] = g.cache[p].data
  BY <1>1
<1>3. s = Stored(f, pages)
  OBVIOUS
<1> HIDE DEF pages
<1>4. Len(s) >= Len(f) /\ Len(s) \in Nat /\ \A p \in 1 .. Len(s) :
          s[p] = IF p \in S THEN pages[p] ELSE IF p <= Len(f) THEN f[p] ELSE Zero
  <2>1. Numbered(s) /\ Len(s) >= Len(f) /\ \A p \in 1 .. Len(s) :
          s[p] = IF p \in DOMAIN pages THEN pages[p] ELSE IF p <= Len(f) THEN f[p] ELSE Zero
    <3>1. DOMAIN pages \subseteq 1 .. MaxPages
      BY <1>2
    <3> DEFINE r == Stored(f, pages)
    <3>2. Numbered(r) /\ Len(r) >= Len(f) /\ \A p \in 1 .. Len(r) :
              r[p] = IF p \in DOMAIN pages THEN pages[p] ELSE IF p <= Len(f) THEN f[p] ELSE Zero
      BY <1>1, <3>1, StoredFacts
    <3>3. QED
      BY <1>3, <3>2
  <2>2. QED
    BY <1>2, <2>1 DEF Numbered
<1>5. SUFFICES ASSUME NEW p \in 1 .. g.dbOrigSize
               PROVE  s[p] = f[p] \/ \E b \in RecordsIn(J, 1, h) : J[b].pgno = p
  BY DEF Untouched
<1>6. p \in 1 .. Len(s) /\ p <= Len(f)
  BY <1>1, <1>4
<1>7. CASE p \notin S
  BY <1>4, <1>6, <1>7
<1>8. CASE p \in S
  <2>1. s[p] = g.cache[p].data /\ p \in DOMAIN g.cache /\ ~g.cache[p].sync
    BY <1>2, <1>4, <1>6, <1>8
  <2>2. CASE p \notin g.pInJournal
    BY <1>5, <2>1, <2>2 DEF ContentRight
  <2>3. CASE p \in g.pInJournal
    <3>1. PICK b \in Records(g, J) : J[b].pgno = p
      BY <2>3 DEF RecordsRight
    <3>2. ~(b > h)
      BY <2>1, <3>1 DEF CacheRight
    <3>3. b \in RecordsIn(J, 1, h)
      BY <1>1, <3>2 DEF Records, RecordsIn
    <3>4. QED
      BY <3>1, <3>3
  <2>4. QED
    BY <2>2, <2>3
<1>9. QED
  BY <1>7, <1>8

\* pager_write_pagelist, also when it fails half way.
LEMMA WritePagesBase ==
    ASSUME WholeInv, WholeInv', OwnRecords, OwnRecords', BaseRight, WritePages
    PROVE  Base' = Base /\ BaseRight' /\ Untouched(jrnl.vis, pager.journalHdr, pager.dbOrigSize, db.vis, db'.vis)
<1> DEFINE J == jrnl.vis
           f == db.vis
           pages == {p \in IF pc.task = "spill" THEN {pc.page} ELSE Dirty : p <= pager.dbSize}
           file(S) == Stored(f, [p \in S |-> pager.cache[p].data])
           grown(s) == Bigger(pager.dbFileSize, Len(s))
           clean == [p \in DOMAIN pager.cache |->
                        IF pc.task = "commit" \/ p = pc.page THEN [pager.cache[p] EXCEPT !.dirty = FALSE] ELSE pager.cache[p]]
           w == [pager EXCEPT !.dbFileSize = grown(file(pages)), !.cache = clean]
           part(q) == file({p \in pages : p < q})
           x(q) == [pager EXCEPT !.dbFileSize = grown(part(q))]
<1>1. pc.at = "writePages" /\ setting' = setting /\ ver' = ver /\ jrnl' = jrnl /\ gone' = gone
  BY DEF WritePages
<1>2. \/ /\ db' = Seen(db, file(pages)) /\ pager' = w
         /\ IF pc.task = "spill" THEN pc' = Idle ELSE Goto("syncDb")
         /\ faults' = faults
      \/ \E q \in pages : MayFail /\ db' = Seen(db, part(q)) /\ Failed(x(q))
  BY DEF WritePages
<1>3. pc.task \in {"spill", "commit"} /\ pager.eState = "DBMOD"
  BY <1>1 DEF WholeInv, Flow, Idle
<1>4. /\ Layout(pager, J) /\ RecordsRight(pager, J) /\ CacheRight(pager, J, f) /\ ContentRight(pager, J, f) /\ Stage
  BY <1>3 DEF WholeInv, WriterRight, Opened3
<1>5. JournalFile(J, ver) /\ DataFile(f) /\ DOMAIN pc = {"at", "task", "page"}
  BY DEF WholeInv, Basics
<1>6. Sizes /\ DOMAIN pager = Fields /\ PagerType(pager)
  BY Bounds
<1>7. pages \subseteq {p \in DOMAIN pager.cache : p <= pager.dbSize /\ ~pager.cache[p].sync}
  BY <1>1, <1>3, <1>4 DEF Stage, Dirty
<1> HIDE DEF pages
<1>8. ASSUME NEW S \in SUBSET pages, db' = Seen(db, file(S))
      PROVE  Base' = Base /\ Untouched(J, pager.journalHdr, pager.dbOrigSize, f, db'.vis)
  <2> DEFINE s == file(S)
  <2>1. db'.vis = s /\ S \subseteq {p \in DOMAIN pager.cache : p <= pager.dbSize /\ ~pager.cache[p].sync}
    BY <1>7, <1>8 DEF Seen
  <2>2. Untouched(J, pager.journalHdr, pager.dbOrigSize, f, s)
    <3>1. s = Stored(f, [p \in S |-> pager.cache[p].data])
      OBVIOUS
    <3> HIDE DEF s
    <3>2. QED
      BY <1>4, <1>5, <1>6, <2>1, <3>1, OutUntouched
  <2>3. DataFile(db'.vis)
    <3>1. (DataFile(db.vis))'
      BY DEF WholeInv, Basics
    <3>2. QED
      BY <1>1, <3>1, CarriedTypes
  <2>4. pager.dbOrigSize <= Len(s)
    <3> DEFINE g == pager
               l == [p \in S |-> g.cache[p].data]
    <3>1. /\ Numbered(f) /\ MaxPages \in Nat /\ DOMAIN l \subseteq 1 .. MaxPages /\ s = Stored(f, l)
          /\ g.dbOrigSize <= Len(f) /\ Len(f) \in Nat /\ g.dbOrigSize \in Nat
      BY <1>4, <1>5, <1>6, <2>1 DEF DataFile, Numbered, Sizes, PagerType, CacheType, CacheRight
    <3> HIDE DEF l, s
    <3>2. Numbered(s) /\ Len(s) >= Len(f)
      BY <3>1, StoredFacts
    <3>3. Len(s) \in Nat
      BY <3>2 DEF Numbered
    <3>4. QED
      BY <3>1, <3>2, <3>3
  <2>5. pager.journalHdr # 0
    BY <1>3, <1>4 DEF Layout
  <2>6. jrnl'.vis = jrnl.vis /\ JournalFile(jrnl'.vis, ver)
    BY <1>1, <1>5
  <2> HIDE DEF s
  <2>7. Untouched(J, pager.journalHdr, pager.dbOrigSize, f, db'.vis)
    BY <2>1, <2>2
  <2>8. QED
    BY <2>7, <1>1, <1>3, <2>1, <2>2, <2>3, <2>4, <2>5, <2>6, FileWritten DEF Opened3
<1>9. CASE \E q \in pages : MayFail /\ db' = Seen(db, part(q)) /\ Failed(x(q))
  <2>1. PICK q \in pages : db' = Seen(db, part(q)) /\ Failed(x(q))
    BY <1>9
  <2>2. {p \in pages : p < q} \in SUBSET pages
    OBVIOUS
  <2>3. Base' = Base /\ Untouched(J, pager.journalHdr, pager.dbOrigSize, f, db'.vis)
    BY <1>8, <2>1, <2>2
  <2>4. QED
    BY <2>1, <2>3, FailedBase
<1>10. CASE /\ db' = Seen(db, file(pages)) /\ pager' = w
            /\ IF pc.task = "spill" THEN pc' = Idle ELSE Goto("syncDb")
            /\ faults' = faults
  <2>1. Base' = Base /\ Untouched(J, pager.journalHdr, pager.dbOrigSize, f, db'.vis)
    <3>1. pages \in SUBSET pages
      OBVIOUS
    <3>2. QED
      BY <1>8, <1>10, <3>1
  <2>2. CASE pc.task = "spill"
    <3>1. pc'.task = "none"
      BY <1>10, <2>2, IdleFacts
    <3>2. QED
      BY <2>1, <3>1, BaseElsewhere
  <2>3. CASE pc.task = "commit"
    <3>1. pc'.task = "commit" /\ pc'.at = "syncDb"
      BY <1>5, <1>10, <2>3 DEF Goto
    <3>2. w.dbSize = pager.dbSize /\ w.cache = clean /\ DOMAIN clean = DOMAIN pager.cache
      BY <1>6 DEF Fields
    <3>3. 1 \in DOMAIN pager.cache
      BY <1>3, <2>3 DEF BaseRight
    <3>4. clean[1].data = pager.cache[1].data
      <4>1. pager.cache[1] \in [data : Page, dirty : BOOLEAN, sync : BOOLEAN]
        BY <1>6, <3>3 DEF PagerType, CacheType
      <4>2. QED
        BY <3>3, <4>1
    <3> HIDE DEF w, clean
    <3>5. pager'.dbSize = pager.dbSize /\ DOMAIN pager'.cache = DOMAIN pager.cache /\ pager'.cache[1].data = pager.cache[1].data
      BY <1>10, <3>2, <3>4
    <3>6. PagesOf(pager', db'.vis) = PagesOf(pager, db.vis)
      BY <3>3, <3>5 DEF PagesOf, Get
    <3>7. QED
      BY <1>3, <2>1, <2>3, <3>1, <3>5, <3>6, CommitCarried
  <2>4. QED
    BY <1>3, <2>2, <2>3
<1>11. QED
  BY <1>2, <1>9, <1>10

\* sqlite3PagerSharedLock syncs a hot journal, or deletes one beside an empty database.
LEMMA SharedLockBase ==
    ASSUME WholeInv, WholeInv', SharedLock
    PROVE  Base' = Base /\ BaseRight'
<1>1. pc = Idle /\ db' = db
  BY DEF SharedLock
<1>2. CASE Hot(db.vis, jrnl.vis)
  <2>1. pc' = At("playback", "recover") /\ jrnl'.vis = jrnl.vis /\ pager'.journalHdr = Len(jrnl.vis)
    <3>1. DOMAIN pager = Fields
      BY Bounds
    <3>2. pager' = [pager EXCEPT !.jfd = TRUE, !.journalHdr = Len(jrnl.vis)]
      BY <1>2 DEF SharedLock
    <3>3. QED
      BY <1>2, <3>1, <3>2 DEF SharedLock, Synced, Fields
  <2>2. Base' = Base
    BY <1>1, <2>1, SameFiles
  <2>3. (Hot(db.vis, jrnl.vis) /\ pager.journalHdr = Len(jrnl.vis))'
    BY <1>1, <1>2, <2>1
  <2>4. pc'.task = "recover" /\ pc'.at = "playback"
    BY <2>1 DEF At
  <2>5. QED
    BY <2>2, <2>3, <2>4 DEF BaseRight
<1>3. CASE ~Hot(db.vis, jrnl.vis)
  <2>1. pc' = pc /\ (jrnl' = jrnl \/ (Len(db.vis) = 0 /\ jrnl' = NoFile))
    BY <1>3 DEF SharedLock
  <2>2. Base' = Base
    <3>1. CASE jrnl' = jrnl
      BY <1>1, <3>1, SameFiles
    <3>2. CASE Len(db.vis) = 0
      <4>1. Base = FileImage(db.vis)
        BY <1>3, BaseIs DEF ImageNow
      <4>2. ~Hot(db'.vis, jrnl'.vis)
        BY <1>1, <3>2 DEF Hot
      <4>3. Base' = FileImage(db'.vis)
        BY <4>2, BaseNext DEF ImageNow
      <4>4. QED
        BY <1>1, <4>1, <4>3
    <3>3. QED
      BY <2>1, <3>1, <3>2
  <2>3. QED
    BY <1>1, <2>1, <2>2, BaseElsewhere, IdleFacts
<1>4. QED
  BY <1>2, <1>3

\* The truncation after a commit cuts off pages that no reader sees.
LEMMA ShrinkBase ==
    ASSUME WholeInv, WholeInv', OwnRecords, BaseRight, Shrink
    PROVE  Base' = Base /\ BaseRight'
<1> DEFINE n == pager.dbSize
           f == db.vis
<1>1. pc.at = "shrink" /\ jrnl' = jrnl
      /\ \/ db' = Seen(db, Sized(f, n)) /\ pc' = Idle
         \/ Failed(pager) /\ db' = db
  BY DEF Shrink
<1>2. pc.task = "end" /\ pager.eState = "READER"
  BY <1>1 DEF WholeInv, Flow, Idle
<1>3. ~MagicAt(jrnl.vis, 1) /\ n <= Len(f) /\ n > 0 /\ f[1].n <= n
  BY <1>2 DEF WholeInv, ReaderRight, BaseRight
<1>4. Numbered(f) /\ n \in Nat /\ Len(f) \in Nat /\ DataFile(f) /\ Sizes
  <2>1. PagerType(pager) /\ Sizes /\ Len(f) \in Nat
    BY Bounds
  <2>2. DataFile(f)
    BY DEF WholeInv, Basics
  <2>3. QED
    BY <2>1, <2>2 DEF DataFile, PagerType, Sizes
<1>5. CASE Failed(pager) /\ db' = db
  BY <1>1, <1>5, SameFiles, FailedBase
<1>6. CASE db' = Seen(db, Sized(f, n)) /\ pc' = Idle
  <2> DEFINE s == Sized(f, n)
  <2>1. db'.vis = s
    BY <1>6 DEF Seen
  <2>2. Len(s) = n /\ \A p \in 1 .. n : s[p] = f[p]
    <3>1. Len(s) = n /\ \A p \in 1 .. n : s[p] = IF p <= Len(f) THEN f[p] ELSE Zero
      BY <1>4, SizedFacts
    <3> HIDE DEF s
    <3>2. QED
      BY <1>3, <1>4, <3>1
  <2>3. Base = FileImage(f) /\ Base' = FileImage(s)
    BY <1>1, <1>3, <2>1, NotHot, NotHotNext
  <2> HIDE DEF s
  <2>4. FileImage(s) = FileImage(f)
    <3>1. s # <<>> /\ f # <<>>
      BY <1>3, <1>4, <2>2
    <3>2. f[1].n \in Nat /\ s[1] = f[1]
      <4>1. f[1] \in Page
        BY <1>3, <1>4 DEF DataFile
      <4>2. 1 \in 1 .. n
        BY <1>3, <1>4
      <4>3. QED
        BY <1>4, <2>2, <4>1, <4>2 DEF Page, Sizes
    <3>3. \A p \in 1 .. n : Get(<<>>, s, Len(s), p) = Get(<<>>, f, Len(f), p)
      BY <1>3, <1>4, <2>2 DEF Get
    <3>4. Get(<<>>, s, Len(s), 1).n = f[1].n /\ Get(<<>>, f, Len(f), 1).n = f[1].n
      BY <1>3, <1>4, <2>2, <3>2 DEF Get
    <3>5. \A p \in 1 .. f[1].n : p \in 1 .. n
      BY <1>3, <1>4, <3>2
    <3>6. Image(<<>>, s, Len(s)) = Image(<<>>, f, Len(f))
      BY <3>3, <3>4, <3>5 DEF Image
    <3>7. QED
      BY <3>1, <3>6 DEF FileImage
  <2>5. QED
    BY <1>6, <2>3, <2>4, BaseElsewhere, IdleFacts
<1>7. QED
  BY <1>1, <1>5, <1>6

\* A power failure leaves nothing under way.
LEMMA PowerFailureBase ==
    ASSUME PowerFailure
    PROVE  BaseRight' /\ crashes' = crashes + 1 /\ crashes < MaxCrashes
  BY BaseElsewhere, IdleFacts DEF PowerFailure

\* The initial states have a committed image.
LEMMA InitBase == Init => BaseRight
<1> SUFFICES ASSUME Init PROVE BaseRight
  OBVIOUS
<1>1. pc.task = "none"
  BY IdleFacts DEF Init
<1>2. QED
  BY <1>1 DEF BaseRight

\* A step that changes nothing keeps it.
LEMMA StutterBase ==
    ASSUME UNCHANGED vars, BaseRight
    PROVE  Base' = Base /\ BaseRight'
<1>1. db' = db /\ jrnl' = jrnl /\ pc' = pc /\ pager' = pager /\ setting' = setting /\ faults' = faults
  BY DEF vars
<1>2. Base' = Base
  BY <1>1, SameFiles
<1>3. OwnRecords' = OwnRecords /\ PagesOf(pager', db'.vis) = PagesOf(pager, db.vis)
  BY <1>1 DEF OwnRecords
<1>4. QED
  BY <1>1, <1>2, <1>3 DEF BaseRight

\* When a commit has written its pages, the file holds what its connection saw.
LEMMA WhatItSaw ==
    ASSUME WholeInv, OwnRecords, BaseRight, pc.at = "finalize", pc.task = "commit"
    PROVE  /\ FileImage(db.vis) = Image(pager.cache, db.vis, pager.dbSize)
           /\ pager.dbSize > 0 /\ db.vis[1].n <= pager.dbSize
<1> DEFINE f == db.vis
           c == pager.cache
           n == pager.dbSize
<1>1. pager.eState \in {"FINISHED", "LOCKED"}
  BY DEF WholeInv, Flow, Idle
<1>2. n > 0 /\ PagesOf(pager, f) <= n /\ Numbered(f) /\ Len(f) \in Nat /\ n \in Nat /\ Sizes
  <2>1. PagerType(pager) /\ Sizes /\ Len(f) \in Nat
    BY Bounds
  <2>2. DataFile(f)
    BY DEF WholeInv, Basics
  <2>3. QED
    BY <2>1, <2>2 DEF DataFile, PagerType, Sizes, BaseRight
<1>3. n <= Len(f) /\ \A p \in DOMAIN c : p <= n => c[p].data = f[p]
  <2>1. CASE pager.eState = "LOCKED"
    <3>1. Begun(pager, jrnl.vis, f)
      BY <2>1 DEF WholeInv, LockedRight
    <3>2. QED
      BY <1>2, <3>1 DEF Begun, Reliable
  <2>2. CASE pager.eState = "FINISHED"
    <3>1. Stage /\ CacheRight(pager, jrnl.vis, f)
      BY <2>2 DEF WholeInv, WriterRight, Opened3
    <3>2. \A p \in DOMAIN c : p <= n => p <= Len(f) /\ c[p].data = f[p]
      BY <3>1 DEF Stage
    <3>3. pager.dbOrigSize <= n /\ pager.dbOrigSize <= Len(f) /\ pager.dbOrigSize \in Nat
          /\ \A p \in pager.dbOrigSize + 1 .. n : p \in DOMAIN c
      <4>1. pager.dbOrigSize \in 0 .. MaxPages
        BY Bounds DEF PagerType
      <4>2. QED
        BY <1>2, <3>1, <4>1 DEF CacheRight, Sizes
    <3>4. n = pager.dbOrigSize \/ n \in pager.dbOrigSize + 1 .. n
      BY <1>2, <3>3
    <3>5. QED
      BY <1>2, <3>2, <3>3, <3>4
  <2>3. QED
    BY <1>1, <2>1, <2>2
<1>4. \A p \in 1 .. n : Get(c, f, n, p) = f[p] /\ Get(<<>>, f, Len(f), p) = f[p]
  BY <1>2, <1>3 DEF Get
<1>5. 1 \in 1 .. n
  BY <1>2
<1>6. f[1].n <= n /\ f # <<>>
  BY <1>2, <1>3, <1>4, <1>5 DEF PagesOf
<1>7. f[1].n \in Nat
  <2>1. f[1] \in Page
    BY <1>2, <1>3 DEF WholeInv, Basics, DataFile
  <2>2. QED
    BY <1>2, <2>1 DEF Page, Sizes
<1>8. \A p \in 1 .. f[1].n : p \in 1 .. n
  BY <1>2, <1>6, <1>7
<1> HIDE DEF f, c, n
<1>9. Image(c, f, n) = Image(<<>>, f, Len(f))
  BY <1>4, <1>5, <1>8 DEF Image
<1>10. FileImage(f) = Image(c, f, n)
  BY <1>6, <1>9 DEF FileImage
<1>11. QED
  BY <1>2, <1>6, <1>10 DEF f, c, n

\* What is left when the removal of the journal fails is the journal or none that is valid.
LEMMA HalfRemovedMagic ==
    ASSUME WholeInv, HalfRemoved
    PROVE  jrnl' = jrnl \/ ~MagicAt(jrnl'.vis, 1)
<1>1. JournalFile(jrnl.vis, ver) /\ Sizes
  BY Bounds DEF WholeInv, Basics
<1> DEFINE K == Put(jrnl.vis, 1, ZeroHeader)
<1>2. ~MagicAt(K, 1)
  BY <1>1, ZeroedFacts
<1> HIDE DEF K
<1>3. jrnl' = jrnl \/ jrnl' = Seen(jrnl, K) \/ jrnl' = NoFile
  BY DEF HalfRemoved, K
<1>4. Seen(jrnl, K).vis = K /\ ~MagicAt(NoFile.vis, 1)
  <2>1. NoFile.vis = <<>> /\ Len(<<>>) = 0
    BY DEF NoFile
  <2>2. QED
    BY <2>1 DEF MagicAt, Seen
<1>5. QED
  BY <1>2, <1>3, <1>4

\* The removal of the journal commits, and ends a roll back.
LEMMA FinalizeBase ==
    ASSUME WholeInv, WholeInv', OwnRecords, OwnRecords', BaseRight, Finalize
    PROVE  (Base' = Base \/ Ends) /\ BaseRight'
<1>1. /\ pc.at = "finalize" /\ db' = db
      /\ \/ /\ Removed /\ pager' = Ended(pager)
            /\ pc' = IF pc.task = "commit" /\ pager.dbFileSize > pager.dbSize THEN At("shrink", "end") ELSE Idle
         \/ HalfRemoved /\ pc' = Idle
  BY DEF Finalize
<1>2. pc.task \in {"commit", "rollback", "recover"}
  BY <1>1 DEF WholeInv, Flow, Idle
<1>3. ASSUME ~MagicAt(jrnl'.vis, 1) PROVE Base' = Base \/ Ends
  <2>1. Base' = FileImage(db.vis)
    BY <1>1, <1>3, NotHotNext
  <2>2. CASE pc.task = "commit"
    BY <1>1, <2>1, <2>2, WhatItSaw DEF Ends
  <2>3. CASE pc.task # "commit"
    BY <1>1, <1>2, <2>1, <2>3 DEF BaseRight
  <2>4. QED
    BY <2>2, <2>3
<1>4. CASE HalfRemoved /\ pc' = Idle
  <2>1. BaseRight'
    BY <1>4, BaseElsewhere, IdleFacts
  <2>2. Base' = Base \/ Ends
    BY <1>1, <1>3, <1>4, HalfRemovedMagic, SameFiles
  <2>3. QED
    BY <2>1, <2>2
<1>5. CASE /\ Removed /\ pager' = Ended(pager)
           /\ pc' = IF pc.task = "commit" /\ pager.dbFileSize > pager.dbSize THEN At("shrink", "end") ELSE Idle
  <2>1. \/ pager.jfd = TRUE /\ (pager.journalOff # 0 \/ pc.task = "recover")
        \/ ~MagicAt(jrnl.vis, 1)
    <3>1. CASE pager.eState \in Opened3
      <4>1. Layout(pager, jrnl.vis) /\ PagerType(pager)
        BY <3>1, Bounds DEF WholeInv, WriterRight
      <4>2. QED
        BY <4>1 DEF Layout, PagerType
    <3>2. CASE pager.eState = "LOCKED"
      BY <3>2 DEF WholeInv, LockedRight, Begun
    <3>3. CASE pc.task = "recover" /\ pager.eState = "OPEN"
      BY <3>3 DEF WholeInv, OpenRight
    <3>4. \/ pager.eState \in Opened3 \cup {"LOCKED"}
          \/ pc.task = "recover" /\ pager.eState = "OPEN"
      BY <1>1 DEF WholeInv, Flow, Idle, Opened3
    <3>5. QED
      BY <3>1, <3>2, <3>3, <3>4
  <2>2. ~MagicAt(jrnl'.vis, 1)
    BY <1>5, <2>1, RemovedFacts
  <2>3. Base' = Base \/ Ends
    BY <1>3, <2>2
  <2>4. CASE pc' = Idle
    BY <2>3, <2>4, BaseElsewhere, IdleFacts
  <2>5. CASE pc' = At("shrink", "end") /\ pc.task = "commit"
    <3>1. pc'.task = "end"
      BY <2>5 DEF At
    <3>2. pager.dbSize > 0 /\ db.vis[1].n <= pager.dbSize
      BY <1>1, <2>5, WhatItSaw
    <3>3. pager'.dbSize = pager.dbSize
      <4>1. PagerType(pager) /\ Sizes /\ DataFile(db.vis)
        BY Bounds DEF WholeInv, Basics
      <4>2. Ended(pager).dbSize = IF pc.task = "recover" THEN Len(db.vis) ELSE pager.dbSize
        BY <4>1, EndedFacts
      <4>3. QED
        BY <1>5, <2>5, <4>2
    <3>4. (pager.dbSize > 0 /\ db.vis[1].n <= pager.dbSize)'
      BY <1>1, <3>2, <3>3
    <3>5. QED
      BY <2>3, <3>1, <3>4 DEF BaseRight
  <2>6. QED
    BY <1>5, <2>4, <2>5
<1>6. QED
  BY <1>1, <1>4, <1>5

\* A journal has one reader.
LEMMA OneReader ==
    ASSUME NEW J, NEW limit \in Nat, Counted(J, limit), NEW hdr, NEW hot,
           NEW R, Reads(R, J, limit, hdr, hot), NEW Q, Reads(Q, J, limit, hdr, hot)
    PROVE  \A i \in 1 .. limit + 1 : R[i] = Q[i]
<1> DEFINE n(i) == Count(J, i, hdr, hot, limit)
           stop(i) == GoodRecords(J, i, n(i), limit)
           Bad == {i \in 1 .. limit + 1 : R[i] # Q[i]}
<1>1. SUFFICES ASSUME Bad # {} PROVE FALSE
  OBVIOUS
<1>2. PICK a \in Bad : \A b \in Bad : b <= a
  <2>1. Bad \subseteq 0 .. limit + 1 /\ limit + 1 \in Nat
    OBVIOUS
  <2> HIDE DEF Bad
  <2>2. QED
    BY <1>1, <2>1, Greatest
<1>3. a \in 1 .. limit + 1 /\ R[a] # Q[a]
  OBVIOUS
<1>4. \A S \in {R, Q} : S[a] = IF a > limit \/ ~IsHeader(J, a, hdr, hot) THEN {}
                               ELSE (a + 1 .. a + stop(a)) \cup (IF stop(a) < n(a) THEN {} ELSE S[a + n(a) + 1])
  BY <1>3 DEF Reads
<1>5. ASSUME a <= limit, IsHeader(J, a, hdr, hot), ~(stop(a) < n(a)) PROVE R[a + n(a) + 1] = Q[a + n(a) + 1]
  <2>1. a \in 1 .. limit /\ n(a) \in Nat
    BY <1>3, <1>5, CountFacts
  <2>2. stop(a) \in 0 .. n(a) /\ a + stop(a) <= limit
    BY <2>1, GoodRecordsFacts
  <2> HIDE DEF n, stop
  <2>3. a + n(a) + 1 \in 1 .. limit + 1 /\ ~(a + n(a) + 1 <= a)
    BY <1>3, <1>5, <2>1, <2>2
  <2>4. QED
    BY <1>2, <2>3
<1> HIDE DEF n, stop
<1>6. QED
  BY <1>3, <1>4, <1>5

\* What a reader takes depends on the headers only,
LEMMA SameBlocksRead ==
    ASSUME NEW J, NEW limit \in Nat, Counted(J, limit), NEW hdr, NEW other, NEW hot, NEW from \in 1 .. limit,
           \A i : IsHeader(J, i, hdr, hot) <=> IsHeader(J, i, other, hot),
           \A i : Count(J, i, hdr, hot, limit) = Count(J, i, other, hot, limit)
    PROVE  Blocks(J, from, limit, hdr, hot) = Blocks(J, from, limit, other, hot)
<1>1. PICK R : /\ Reads(R, J, limit, hdr, hot)
               /\ \A a \in 1 .. limit : Blocks(J, a, limit, hdr, hot) = R[a]
  BY BlocksRead
<1>2. PICK Q : /\ Reads(Q, J, limit, other, hot)
               /\ \A a \in 1 .. limit : Blocks(J, a, limit, other, hot) = Q[a]
  BY BlocksRead
<1>3. Reads(R, J, limit, other, hot)
  <2> DEFINE body(i, h) == IF i > limit \/ ~IsHeader(J, i, h, hot) THEN {}
                           ELSE (i + 1 .. i + GoodRecords(J, i, Count(J, i, h, hot, limit), limit))
                                \cup (IF GoodRecords(J, i, Count(J, i, h, hot, limit), limit) < Count(J, i, h, hot, limit) THEN {}
                                      ELSE R[i + Count(J, i, h, hot, limit) + 1])
  <2>1. R = [i \in 1 .. limit + 1 |-> body(i, hdr)]
    BY <1>1 DEF Reads
  <2>2. ASSUME NEW i PROVE body(i, hdr) = body(i, other)
    <3>1. Count(J, i, hdr, hot, limit) = Count(J, i, other, hot, limit)
      OBVIOUS
    <3>2. CASE IsHeader(J, i, hdr, hot)
      <4>1. IsHeader(J, i, other, hot)
        BY <3>2
      <4>2. QED
        BY <3>1, <3>2, <4>1
    <3>3. CASE ~IsHeader(J, i, hdr, hot)
      <4>1. ~IsHeader(J, i, other, hot)
        BY <3>3
      <4>2. QED
        BY <3>3, <4>1
    <3>4. QED
      BY <3>2, <3>3
  <2> HIDE DEF body
  <2>3. R = [i \in 1 .. limit + 1 |-> body(i, other)]
    BY <2>1, <2>2
  <2>4. QED
    BY <2>3 DEF Reads, body
<1>4. R[from] = Q[from]
  <2>1. from \in 1 .. limit + 1
    OBVIOUS
  <2>2. QED
    BY <1>2, <1>3, <2>1, OneReader
<1>5. QED
  BY <1>1, <1>2, <1>4

\* and the header in progress does not matter when the journal is hot.
LEMMA HotBlocks ==
    ASSUME NEW J, NEW limit \in Nat, Counted(J, limit), NEW hdr, NEW other, NEW from \in 1 .. limit
    PROVE  Blocks(J, from, limit, hdr, TRUE) = Blocks(J, from, limit, other, TRUE)
<1> DEFINE hot == TRUE
<1>1. \A i : IsHeader(J, i, hdr, hot) <=> IsHeader(J, i, other, hot)
  BY DEF IsHeader
<1>2. \A i : Count(J, i, hdr, hot, limit) = Count(J, i, other, hot, limit)
  BY DEF Count
<1> HIDE DEF hot
<1>3. Blocks(J, from, limit, hdr, hot) = Blocks(J, from, limit, other, hot)
  BY <1>1, <1>2, SameBlocksRead
<1>4. QED
  BY <1>3 DEF hot

\* A roll back cuts the file to its original size and stores what the journal gives.
LEMMA RolledBackIs ==
    \A f, J : RolledBack(f, J) =
                  Stored(Sized(f, J[1].orig), Pages(Changes(J, Blocks(J, 1, Len(J), 0, TRUE), J[1].orig)))
<1> TAKE f, J
<1> DEFINE c == Changes(J, Blocks(J, 1, Len(J), 0, TRUE), J[1].orig)
           r(x) == Stored(Sized(f, J[1].orig), Pages(x))
<1>1. RolledBack(f, J) = The({r(x) : x \in {c}})
  BY DEF RolledBack
<1> HIDE DEF c, r
<1>2. {r(x) : x \in {c}} = {r(c)}
  OBVIOUS
<1>3. QED
  BY <1>1, <1>2, TheOne DEF c, r

\* What a roll back has restored of the file z: the pages of some changes.
RestoredPart(z, c, w) ==
    /\ DataFile(w) /\ Len(w) = Len(z)
    /\ \A p \in 1 .. Len(z) : w[p] = z[p] \/ \E k \in DOMAIN c : c[k].pgno = p

\* What a hot journal makes of a file: r has the pages of its changes c, contents l, in a file z of the old size.
HotEffect(J, c, z, l, r) ==
    LET orig == J[1].orig
    IN  /\ Len(J) \in Nat /\ Len(J) > 0 /\ J[1].kind = "hdr" /\ J[1].magic
        /\ orig \in Nat /\ orig <= MaxPages /\ Numbered(z) /\ Len(z) = orig
        /\ DOMAIN l \subseteq 1 .. orig /\ \A p : p \in DOMAIN l <=> \E k \in DOMAIN c : c[k].pgno = p
        /\ r = Stored(z, l) /\ Numbered(r) /\ Len(r) = orig
        /\ \A p \in 1 .. orig : r[p] = IF p \in DOMAIN l THEN l[p] ELSE z[p]
\* A hot journal gives back the pages it has a record of.
LEMMA HotPages ==
    ASSUME Sizes, NEW f, DataFile(f), NEW J, NEW v, JournalFile(J, v), Hot(f, J),
           NEW c, c = Changes(J, Blocks(J, 1, Len(J), 0, TRUE), J[1].orig)
    PROVE  HotEffect(J, c, Sized(f, J[1].orig), Pages(c), RolledBack(f, J))
<1> DEFINE orig == J[1].orig
           blocks == Blocks(J, 1, Len(J), 0, TRUE)
           z == Sized(f, orig)
           l == Pages(c)
           r == Stored(z, l)
<1>1. Len(J) \in Nat /\ Len(J) > 0 /\ J[1].kind = "hdr" /\ J[1].magic /\ Counted(J, Len(J))
  BY DEF Hot, Counted, JournalFile, Numbered, IsBlock
<1>2. orig \in 0 .. MaxPages /\ orig \in Nat
  <2>1. IsBlock(J[1], v)
    BY <1>1 DEF JournalFile
  <2>2. QED
    BY <1>1, <2>1 DEF IsBlock, Sizes
<1>3. Numbered(z) /\ Len(z) = orig
  <2>1. Numbered(f)
    BY DEF DataFile
  <2> HIDE DEF orig
  <2>2. QED
    BY <1>2, <2>1, SizedFacts
<1>4. Changed(c, orig)
  <2>1. RecordBlocks(J, blocks)
    <3>1. ASSUME NEW i, i = 1
          PROVE  /\ Blocks(J, i, Len(J), 0, TRUE) \subseteq i + 1 .. Len(J)
                 /\ \A b \in Blocks(J, i, Len(J), 0, TRUE) : J[b].kind = "rec"
      <4>1. i \in Nat /\ i > 0
        BY <3>1
      <4> DEFINE hdr == 0
                 hot == TRUE
      <4> HIDE DEF hdr, hot
      <4>2. /\ Blocks(J, i, Len(J), hdr, hot) \subseteq i + 1 .. Len(J)
            /\ \A b \in Blocks(J, i, Len(J), hdr, hot) : J[b].kind = "rec"
        BY <1>1, <4>1, BlocksAreRecords
      <4>3. QED
        BY <4>2 DEF hdr, hot
    <3>2. blocks \subseteq 1 + 1 .. Len(J) /\ \A b \in blocks : J[b].kind = "rec"
      BY <3>1
    <3>3. \A b \in 1 + 1 .. Len(J) : b \in 1 .. Len(J)
      BY <1>1
    <3>4. QED
      BY <3>2, <3>3 DEF RecordBlocks
  <2>2. c = Changes(J, blocks, orig)
    OBVIOUS
  <2> HIDE DEF blocks, orig
  <2>3. QED
    BY <1>2, <2>1, <2>2, ChangesFacts
<1>5. DOMAIN l \subseteq 1 .. orig /\ \A p : p \in DOMAIN l <=> \E k \in DOMAIN c : c[k].pgno = p
  <2>1. DOMAIN l = {c[k].pgno : k \in DOMAIN c}
    BY DEF Pages, Latest
  <2> HIDE DEF l, orig
  <2>2. QED
    BY <1>4, <2>1 DEF Changed
<1>6. RolledBack(f, J) = r
  BY RolledBackIs
<1>7. /\ Numbered(r) /\ Len(r) = orig
      /\ \A p \in 1 .. orig : r[p] = IF p \in DOMAIN l THEN l[p] ELSE z[p]
  <2> HIDE DEF l, z, orig
  <2>1. /\ Numbered(r) /\ Len(r) >= Len(z) /\ (Len(r) = Len(z) \/ Len(r) \in DOMAIN l)
        /\ \A p \in 1 .. Len(r) : r[p] = IF p \in DOMAIN l THEN l[p] ELSE IF p <= Len(z) THEN z[p] ELSE Zero
    BY <1>2, <1>3, <1>5, StoredFacts
  <2> HIDE DEF r
  <2>2. Len(r) = orig
    BY <1>2, <1>3, <1>5, <2>1
  <2>3. QED
    BY <1>2, <1>3, <2>1, <2>2
<1>8. Len(J) \in Nat /\ Len(J) > 0 /\ J[1].kind = "hdr" /\ J[1].magic
  BY <1>1
<1>9. J[1].orig \in Nat /\ J[1].orig <= MaxPages
  BY <1>2 DEF Sizes
<1>10. /\ RolledBack(f, J) = Stored(z, l) /\ Numbered(RolledBack(f, J)) /\ Len(RolledBack(f, J)) = orig
       /\ \A p \in 1 .. orig : RolledBack(f, J)[p] = IF p \in DOMAIN l THEN l[p] ELSE z[p]
  <2> HIDE DEF l, z, orig
  <2>1. QED
    BY <1>6, <1>7
<1>11. HotEffect(J, c, z, l, RolledBack(f, J))
  <2> HIDE DEF l, z
  <2>1. QED
    BY <1>3, <1>5, <1>8, <1>9, <1>10 DEF HotEffect
<1>12. QED
  BY <1>11

\* A hot journal that was played back in part is played back to the same file.
LEMMA PlayedAgain ==
    ASSUME Sizes, NEW f, DataFile(f), NEW J, NEW v, JournalFile(J, v), Hot(f, J),
           NEW c, c = Changes(J, Blocks(J, 1, Len(J), 0, TRUE), J[1].orig),
           NEW w, RestoredPart(Sized(f, J[1].orig), c, w)
    PROVE  ImageNow(w, J) = FileImage(RolledBack(f, J))
<1> DEFINE orig == J[1].orig
           z == Sized(f, orig)
           l == Pages(c)
           r == Stored(z, l)
<1>1. /\ Len(J) \in Nat /\ Len(J) > 0 /\ J[1].kind = "hdr" /\ J[1].magic /\ orig \in Nat
      /\ Numbered(z) /\ Len(z) = orig
      /\ DOMAIN l \subseteq 1 .. orig /\ \A p : p \in DOMAIN l <=> \E k \in DOMAIN c : c[k].pgno = p
      /\ RolledBack(f, J) = r /\ Numbered(RolledBack(f, J)) /\ Len(RolledBack(f, J)) = orig
      /\ \A p \in 1 .. orig : RolledBack(f, J)[p] = IF p \in DOMAIN l THEN l[p] ELSE z[p]
  <2>1. HotEffect(J, c, z, l, RolledBack(f, J))
    BY HotPages
  <2> HIDE DEF z, l
  <2>2. QED
    BY <2>1 DEF HotEffect
<1>2. orig \in Nat
  BY <1>1
<1>3. Numbered(z) /\ Len(z) = orig
  BY <1>1
<1>5. DOMAIN l \subseteq 1 .. orig /\ \A k \in DOMAIN c : c[k].pgno \in DOMAIN l
  <2> HIDE DEF l, orig
  <2>1. QED
    BY <1>1
<1>6. RolledBack(f, J) = r
  BY <1>1
<1>7. Numbered(w) /\ Len(w) = orig /\ DataFile(w)
  BY <1>3 DEF RestoredPart, DataFile
<1>8. /\ Numbered(r) /\ Len(r) = orig
      /\ \A p \in 1 .. orig : r[p] = IF p \in DOMAIN l THEN l[p] ELSE z[p]
  <2> HIDE DEF l, z, r
  <2>1. QED
    BY <1>1
<1>9. CASE orig = 0
  <2>1. Len(w) = 0 /\ Len(r) = 0
    BY <1>7, <1>8, <1>9
  <2>2. ~Hot(w, J)
    BY <2>1 DEF Hot
  <2> HIDE DEF r
  <2>3. w = r
    BY <1>7, <1>8, <2>1, SameFile
  <2>4. QED
    BY <1>6, <2>2, <2>3 DEF ImageNow
<1>10. CASE orig # 0
  <2> DEFINE y == Sized(w, orig)
             s == Stored(y, l)
  <2>1. Hot(w, J)
    BY <1>1, <1>2, <1>7, <1>10 DEF Hot
  <2>2. RolledBack(w, J) = s
    BY RolledBackIs
  <2>3. y = w
    <3> HIDE DEF orig
    <3>1. QED
      BY <1>2, <1>7, SizedFacts
  <2>4. s = Stored(w, l)
    BY <2>3
  <2>5. /\ Numbered(s) /\ Len(s) = orig
        /\ \A p \in 1 .. orig : s[p] = IF p \in DOMAIN l THEN l[p] ELSE w[p]
    <3> DEFINE t == Stored(w, l)
    <3> HIDE DEF l, orig
    <3>1. /\ Numbered(t) /\ Len(t) >= Len(w) /\ (Len(t) = Len(w) \/ Len(t) \in DOMAIN l)
          /\ \A p \in 1 .. Len(t) : t[p] = IF p \in DOMAIN l THEN l[p] ELSE IF p <= Len(w) THEN w[p] ELSE Zero
      BY <1>2, <1>5, <1>7, StoredFacts
    <3> HIDE DEF t
    <3>2. Len(t) = orig
      BY <1>2, <1>5, <1>7, <3>1
    <3>3. /\ Numbered(t) /\ Len(t) = orig
          /\ \A p \in 1 .. orig : t[p] = IF p \in DOMAIN l THEN l[p] ELSE w[p]
      BY <1>2, <1>7, <3>1, <3>2
    <3>4. t = s
      BY <2>4 DEF t
    <3>5. QED
      BY <3>3, <3>4
  <2>6. \A p \in 1 .. orig : p \in DOMAIN l \/ w[p] = z[p]
    <3>1. RestoredPart(z, c, w)
      OBVIOUS
    <3> HIDE DEF z, l
    <3>2. \A p \in 1 .. Len(z) : w[p] = z[p] \/ \E k \in DOMAIN c : c[k].pgno = p
      BY <3>1 DEF RestoredPart
    <3>3. ASSUME NEW p \in 1 .. orig, p \notin DOMAIN l PROVE w[p] = z[p]
      <4>1. p \in 1 .. Len(z)
        BY <1>3
      <4>2. ~\E k \in DOMAIN c : c[k].pgno = p
        BY <1>5, <3>3
      <4>3. QED
        BY <3>2, <4>1, <4>2
    <3>4. QED
      BY <3>3
  <2> HIDE DEF r, s, l, z, y
  <2>7. s = r
    BY <1>8, <2>5, <2>6, SameFile
  <2>8. QED
    BY <1>6, <2>1, <2>2, <2>7 DEF ImageNow
<1>11. QED
  BY <1>9, <1>10

(***************************************************************************)
(* pager_playback: what it reads, and what some of it makes of the file.   *)
(***************************************************************************)
PlayedBlocks == Blocks(jrnl.vis, 1, Len(jrnl.vis), InProgress(pager), pc.task = "recover")
PlayedChanges == Changes(jrnl.vis, PlayedBlocks, jrnl.vis[1].orig)
Low(c) == {k \in DOMAIN c : k <= pager.journalHdr}
PlayedFile(c) ==
    IF pager.eState # "CACHEMOD" THEN Stored(Sized(db.vis, jrnl.vis[1].orig), Latest(c, Low(c))) ELSE db.vis
PartOf(c, all) == DOMAIN c \subseteq DOMAIN all /\ \A k \in DOMAIN c : c[k] = all[k]

\* What a step of a roll back leaves.
LEMMA PlaybackDoes ==
    ASSUME WholeInv, Playback
    PROVE  /\ pc.at = "playback" /\ jrnl' = jrnl /\ setting' = setting /\ ver' = ver
           /\ \/ pc.task = "rollback" /\ pager.eState \in {"CACHEMOD", "DBMOD"}
              \/ pc.task = "recover" /\ pager.eState = "OPEN"
           /\ \E c : /\ PartOf(c, PlayedChanges) /\ db'.vis = PlayedFile(c)
                     /\ \/ \E g : Failed(g)
                        \/ /\ c = PlayedChanges /\ pc'.task = pc.task
                           /\ pc'.at = IF pager.eState # "CACHEMOD" THEN "syncDb" ELSE "finalize"
<1> DEFINE J == jrnl.vis
           f == db.vis
           hot == pc.task = "recover"
           orig == J[1].orig
           blocks == Blocks(J, 1, Len(J), InProgress(pager), hot)
           all == Changes(J, blocks, orig)
           inFile == pager.eState # "CACHEMOD"
           file(c) == IF inFile THEN Stored(Sized(f, orig), Latest(c, {k \in DOMAIN c : k <= pager.journalHdr})) ELSE f
           cache(c) == IF hot /\ blocks # {} THEN <<>> ELSE Restored(pager.cache, Pages(c), {})
           played(c) == [pager EXCEPT !.dbSize = orig, !.cache = cache(c),
                                      !.dbFileSize = IF inFile THEN Len(file(c)) ELSE @]
<1>1. /\ pc.at = "playback" /\ setting' = setting /\ ver' = ver /\ jrnl' = jrnl
      /\ \/ db' = Seen(db, file(all)) /\ Goto(IF inFile THEN "syncDb" ELSE "finalize")
         \/ \E n \in DOMAIN all : db' = Seen(db, file(Before(all, n))) /\ Failed(played(Before(all, n)))
  BY DEF Playback
<1>2. \/ pc.task = "rollback" /\ pager.eState \in {"CACHEMOD", "DBMOD"}
      \/ pc.task = "recover" /\ pager.eState = "OPEN"
  <2>1. pc.at = "playback"
    BY <1>1
  <2>2. QED
    BY <2>1 DEF WholeInv, Flow, Idle
<1>3. all = PlayedChanges /\ \A c : file(c) = PlayedFile(c)
  BY DEF PlayedChanges, PlayedBlocks, PlayedFile, Low
<1> HIDE DEF all, file, played
<1>4. CASE db' = Seen(db, file(all)) /\ Goto(IF inFile THEN "syncDb" ELSE "finalize")
  <2>1. db'.vis = PlayedFile(PlayedChanges)
    BY <1>3, <1>4 DEF Seen
  <2>2. pc'.task = pc.task /\ pc'.at = IF pager.eState # "CACHEMOD" THEN "syncDb" ELSE "finalize"
    BY <1>4 DEF Goto, WholeInv, Basics
  <2>3. PartOf(PlayedChanges, PlayedChanges)
    BY DEF PartOf
  <2>4. QED
    BY <1>1, <1>2, <2>1, <2>2, <2>3
<1>5. CASE \E n \in DOMAIN all : db' = Seen(db, file(Before(all, n))) /\ Failed(played(Before(all, n)))
  <2>1. PICK n : db' = Seen(db, file(Before(all, n))) /\ Failed(played(Before(all, n)))
    BY <1>5
  <2> DEFINE c == Before(all, n)
  <2>2. PartOf(c, PlayedChanges)
    BY <1>3, BeforeFacts DEF PartOf
  <2>3. db'.vis = PlayedFile(c)
    BY <1>3, <2>1 DEF Seen
  <2>4. \E g : Failed(g)
    BY <2>1
  <2> HIDE DEF c
  <2>5. QED
    BY <1>1, <1>2, <2>2, <2>3, <2>4
<1>6. QED
  BY <1>1, <1>4, <1>5

\* What it stores comes from records of the journal.
LEMMA PlayedChangesFacts ==
    ASSUME WholeInv, pc.at = "playback"
    PROVE  LET J == jrnl.vis
               orig == J[1].orig
           IN  /\ Len(J) \in Nat /\ Len(J) > 0 /\ J[1].kind = "hdr" /\ orig \in 0 .. MaxPages /\ Counted(J, Len(J))
               /\ RecordBlocks(J, PlayedBlocks)
               /\ Changed(PlayedChanges, orig) /\ ReadFrom(PlayedChanges, J, PlayedBlocks, orig)
<1> DEFINE J == jrnl.vis
           orig == J[1].orig
<1>1. Numbered(J) /\ Len(J) \in Nat /\ JournalFile(J, ver) /\ PagerType(pager)
  BY Bounds DEF WholeInv, Basics, JournalFile
<1>2. 1 <= Len(J) /\ J[1].kind = "hdr"
  <2>1. CASE pager.eState \in {"CACHEMOD", "DBMOD"}
    <3>1. Layout(pager, J)
      BY <2>1 DEF WholeInv, WriterRight, Opened3
    <3>2. LastOf(pager) \in Nat
      BY <1>1 DEF PagerType, LastOf
    <3>3. QED
      BY <1>1, <3>1, <3>2 DEF Layout
  <2>2. CASE pager.eState = "OPEN"
    <3>1. MagicAt(J, 1)
      BY <2>2 DEF WholeInv, OpenRight
    <3>2. QED
      BY <1>1, <3>1 DEF MagicAt
  <2>3. QED
    BY <2>1, <2>2 DEF WholeInv, Flow, Idle
<1>3. orig \in 0 .. MaxPages
  <2>1. IsBlock(J[1], ver)
    BY <1>1, <1>2 DEF JournalFile
  <2>2. QED
    BY <1>2, <2>1 DEF IsBlock
<1>4. Counted(J, Len(J))
  BY <1>1 DEF Counted, JournalFile, IsBlock
<1>5. RecordBlocks(J, PlayedBlocks)
  <2> DEFINE hdr == InProgress(pager)
             hot == pc.task = "recover"
  <2>1. ASSUME NEW i, i = 1, NEW h, h = hot
        PROVE  /\ Blocks(J, i, Len(J), hdr, h) \subseteq i + 1 .. Len(J)
               /\ \A b \in Blocks(J, i, Len(J), hdr, h) : J[b].kind = "rec"
    <3>1. i \in Nat /\ i > 0
      BY <2>1
    <3> HIDE DEF hdr
    <3>2. QED
      BY <1>1, <1>4, <3>1, BlocksAreRecords
  <2>2. PlayedBlocks \subseteq 1 + 1 .. Len(J) /\ \A b \in PlayedBlocks : J[b].kind = "rec"
    BY <2>1 DEF PlayedBlocks
  <2>3. \A b \in 1 + 1 .. Len(J) : b \in 1 .. Len(J)
    BY <1>1
  <2>4. QED
    BY <2>2, <2>3 DEF RecordBlocks
<1>6. Changed(PlayedChanges, orig) /\ ReadFrom(PlayedChanges, J, PlayedBlocks, orig)
  <2>1. orig \in Nat /\ PlayedChanges = Changes(J, PlayedBlocks, orig)
    BY <1>3 DEF PlayedChanges
  <2> HIDE DEF J, orig
  <2>2. QED
    BY <1>1, <1>5, <2>1, ChangesFacts
<1>7. QED
  BY <1>1, <1>2, <1>3, <1>4, <1>5, <1>6

\* What some of the changes make of the file.
LEMMA PlayedFileFacts ==
    ASSUME WholeInv, pc.at = "playback", pager.eState # "CACHEMOD", NEW c, PartOf(c, PlayedChanges)
    PROVE  LET z == Sized(db.vis, jrnl.vis[1].orig)
               w == PlayedFile(c)
           IN  /\ Numbered(z) /\ Len(z) = jrnl.vis[1].orig
               /\ \A p \in 1 .. jrnl.vis[1].orig : z[p] = IF p <= Len(db.vis) THEN db.vis[p] ELSE Zero
               /\ DataFile(w) /\ Len(w) = Len(z)
               /\ \A p \in 1 .. Len(z) : w[p] = z[p] \/ \E k \in Low(c) : c[k].pgno = p
               /\ OncePerPage(c) => \A k \in Low(c) : w[c[k].pgno] = c[k].data
<1> DEFINE f == db.vis
           orig == jrnl.vis[1].orig
           z == Sized(f, orig)
           w == PlayedFile(c)
           S == Low(c)
<1>1. orig \in 0 .. MaxPages /\ Changed(PlayedChanges, orig) /\ DataFile(f) /\ Sizes
  BY PlayedChangesFacts, Bounds DEF WholeInv, Basics
<1>2. orig \in Nat /\ Numbered(f)
  BY <1>1 DEF DataFile
<1>3. Numbered(z) /\ Len(z) = orig /\ DataFile(z)
      /\ \A p \in 1 .. orig : z[p] = IF p <= Len(f) THEN f[p] ELSE Zero
  <2> HIDE DEF orig, f
  <2>1. QED
    BY <1>1, <1>2, SizedFacts, SizedFile
<1>4. Changed(c, orig)
  <2> HIDE DEF orig
  <2>1. QED
    BY <1>1, <1>2, SomeChanges DEF PartOf
<1>5. S \subseteq DOMAIN c /\ w = Stored(z, Latest(c, S)) /\ orig <= Len(z)
  BY <1>2, <1>3 DEF PlayedFile, Low
<1> HIDE DEF z, orig, w, S
<1>6. /\ DataFile(w) /\ Len(w) = Len(z)
      /\ \A p \in 1 .. Len(z) : w[p] = z[p] \/ \E k \in S : c[k].pgno = p /\ w[p] = c[k].data
      /\ OncePerPage(c) => \A k \in S : w[c[k].pgno] = c[k].data
  <2> DEFINE s == Stored(z, Latest(c, S))
  <2>1. /\ DataFile(s) /\ Len(s) = Len(z)
        /\ \A p \in 1 .. Len(z) : (\A k \in S : c[k].pgno # p) => s[p] = z[p]
        /\ \A p \in 1 .. Len(z) : s[p] = z[p] \/ \E k \in S : c[k].pgno = p /\ s[p] = c[k].data
        /\ OncePerPage(c) => \A k \in S : s[c[k].pgno] = c[k].data
    BY <1>1, <1>2, <1>3, <1>4, <1>5, StoredChanges
  <2>2. s = w
    BY <1>5
  <2> HIDE DEF s
  <2>3. QED
    BY <2>1, <2>2
<1>7. QED
  BY <1>3, <1>6 DEF z, orig, w, S

\* A roll back plays back the records of its own transaction.
LEMMA OwnPlayed ==
    ASSUME WholeInv, OwnRecords, pc.at = "playback", pc.task = "rollback", pager.eState \in {"CACHEMOD", "DBMOD"}
    PROVE  PlayedBlocks = Records(pager, jrnl.vis)
<1> DEFINE J == jrnl.vis
           one == 1
           limit == Len(J)
<1>1. Layout(pager, J) /\ Stage /\ JournalFile(J, ver) /\ PagerType(pager) /\ limit \in Nat /\ faults \in Nat
  BY Bounds DEF WholeInv, WriterRight, Opened3, Basics
<1>2. HeaderRight(pager, J)
  BY <1>1 DEF Stage, HeaderRight
<1>3. pager.header = 0 => ~setting.aligned
  <2>1. pager.header = 0 => faults > 0
    BY <1>1 DEF Stage
  <2>2. QED
    BY <1>1, <2>1 DEF OwnRecords
<1>4. /\ one \in 1 .. pager.journalHdr + 1 /\ one <= limit /\ LastOf(pager) <= limit /\ limit <= Len(J)
      /\ J[one].kind = "hdr"
  <2>1. LastOf(pager) \in Nat /\ pager.journalHdr \in Nat
    BY <1>1 DEF PagerType, LastOf
  <2>2. QED
    BY <1>1, <2>1 DEF Layout
<1> HIDE DEF one, limit
<1>5. Blocks(J, one, limit, InProgress(pager), FALSE) = RecordsIn(J, one, LastOf(pager))
  BY <1>1, <1>2, <1>3, <1>4, OwnBlocks
<1>6. PlayedBlocks = Blocks(J, one, limit, InProgress(pager), FALSE)
  <2>1. (pc.task = "recover") = FALSE
    OBVIOUS
  <2>2. QED
    BY <2>1 DEF PlayedBlocks, one, limit
<1>7. QED
  BY <1>5, <1>6 DEF one, Records

\* A roll back before the first write of the file finds it as it was.
LEMMA PlaybackCacheBase ==
    ASSUME WholeInv, OwnRecords, Playback, pager.eState = "CACHEMOD"
    PROVE  Base' = Base /\ BaseRight'
<1> DEFINE J == jrnl.vis
           f == db.vis
<1>1. PICK c : /\ db'.vis = PlayedFile(c)
               /\ \/ \E g : Failed(g)
                  \/ pc'.task = pc.task /\ pc'.at = IF pager.eState # "CACHEMOD" THEN "syncDb" ELSE "finalize"
  BY PlaybackDoes
<1>2. jrnl' = jrnl /\ pc.task = "rollback" /\ db'.vis = f
  BY <1>1, PlaybackDoes DEF PlayedFile
<1>3. Base' = Base
  BY <1>2, SameFiles
<1>4. CASE \E g : Failed(g)
  BY <1>3, <1>4, FailedBase
<1>5. CASE pc'.task = pc.task /\ pc'.at = IF pager.eState # "CACHEMOD" THEN "syncDb" ELSE "finalize"
  <2>1. Layout(pager, J) /\ CacheRight(pager, J, f) /\ DataFile(f)
    BY DEF WholeInv, WriterRight, Opened3, Basics
  <2>2. pager.journalHdr = 0 /\ Len(f) = pager.dbOrigSize /\ Numbered(f)
    BY <2>1 DEF Layout, CacheRight, DataFile
  <2>3. RecordsIn(J, 1, pager.journalHdr) = {}
    BY <2>2 DEF RecordsIn
  <2>4. Recovers(J, pager.journalHdr, pager.dbOrigSize, f, f)
    BY <2>2, <2>3 DEF Recovers
  <2>5. Base = FileImage(f)
    BY <2>4, OriginalNow DEF Opened3
  <2>6. (Base = FileImage(db.vis))'
    BY <1>2, <1>3, <2>5
  <2>7. pc'.task = "rollback"
    BY <1>2, <1>5
  <2>8. QED
    BY <1>3, <2>6, <2>7 DEF BaseRight
<1>6. QED
  BY <1>1, <1>4, <1>5

\* After it, a roll back gives the file back from the whole segments, in part or in full.
LEMMA PlaybackFileBase ==
    ASSUME WholeInv, WholeInv', OwnRecords, Playback, pager.eState = "DBMOD"
    PROVE  Base' = Base /\ BaseRight' /\ Untouched(jrnl.vis, pager.journalHdr, pager.dbOrigSize, db.vis, db'.vis)
<1> DEFINE J == jrnl.vis
           f == db.vis
           h == pager.journalHdr
           orig == pager.dbOrigSize
           all == PlayedChanges
<1>1. PICK c : /\ PartOf(c, PlayedChanges) /\ db'.vis = PlayedFile(c)
               /\ \/ \E g : Failed(g)
                  \/ /\ c = PlayedChanges /\ pc'.task = pc.task
                     /\ pc'.at = IF pager.eState # "CACHEMOD" THEN "syncDb" ELSE "finalize"
  BY PlaybackDoes
<1>2. jrnl' = jrnl /\ setting' = setting /\ pc.task = "rollback" /\ pc.at = "playback"
  BY PlaybackDoes
<1>3. /\ Layout(pager, J) /\ RecordsRight(pager, J) /\ CacheRight(pager, J, f) /\ DataFile(f) /\ JournalFile(J, ver)
      /\ PagerType(pager) /\ Sizes
  BY Bounds DEF WholeInv, WriterRight, Opened3, Basics
<1>4. J[1].orig = orig /\ h \in Nat /\ orig \in Nat /\ Len(f) \in Nat /\ orig <= Len(f) /\ h <= LastOf(pager) /\ h # 0
      /\ LastOf(pager) \in Nat
  BY <1>3 DEF Layout, PagerType, Sizes, DataFile, Numbered, CacheRight, LastOf
<1>5. RecordBlocks(J, PlayedBlocks) /\ ReadFrom(all, J, PlayedBlocks, orig) /\ Len(J) \in Nat
  BY <1>2, <1>4, PlayedChangesFacts
<1> DEFINE z == Sized(f, orig)
           w == PlayedFile(c)
<1>6. /\ Len(z) = orig /\ \A p \in 1 .. orig : z[p] = IF p <= Len(f) THEN f[p] ELSE Zero
      /\ DataFile(w) /\ Len(w) = Len(z)
      /\ \A p \in 1 .. Len(z) : w[p] = z[p] \/ \E k \in Low(c) : c[k].pgno = p
      /\ OncePerPage(c) => \A k \in Low(c) : w[c[k].pgno] = c[k].data
  BY <1>1, <1>2, <1>4, PlayedFileFacts
<1>7. \A p \in 1 .. orig : z[p] = f[p]
  BY <1>4, <1>6
<1>8. db'.vis = w
  BY <1>1
<1> HIDE DEF z, w, all
<1>9. ASSUME NEW k \in Low(c) PROVE k \in RecordsIn(J, 1, h) /\ c[k].pgno = J[k].pgno /\ c[k].data = J[k].data
  <2>1. k \in DOMAIN all /\ c[k] = all[k] /\ k <= h
    BY <1>1 DEF Low, PartOf, all
  <2>2. k \in PlayedBlocks /\ all[k].pgno = J[k].pgno /\ all[k].data = J[k].data
    BY <1>5, <2>1 DEF ReadFrom
  <2>3. k \in 1 .. Len(J) /\ J[k].kind = "rec"
    BY <1>5, <2>2 DEF RecordBlocks
  <2>4. k \in 1 .. h
    BY <1>4, <1>5, <2>1, <2>3
  <2>5. QED
    BY <2>1, <2>2, <2>3, <2>4 DEF RecordsIn
<1>10. Untouched(J, h, orig, f, w)
  <2>1. ASSUME NEW p \in 1 .. orig, w[p] # f[p] PROVE \E b \in RecordsIn(J, 1, h) : J[b].pgno = p
    <3>1. \E k \in Low(c) : c[k].pgno = p
      BY <1>6, <1>7, <2>1
    <3>2. QED
      BY <1>9, <3>1
  <2>2. QED
    BY <2>1 DEF Untouched
<1>11. Base' = Base
  <2>1. DataFile(db'.vis) /\ orig <= Len(db'.vis) /\ Len(db'.vis) = orig
    BY <1>4, <1>6, <1>8
  <2>2. jrnl'.vis = jrnl.vis /\ JournalFile(jrnl'.vis, ver)
    BY <1>2, <1>3
  <2>3. QED
    BY <1>2, <1>8, <1>10, <2>1, <2>2, FileWritten DEF Opened3
<1>12. Untouched(J, h, orig, f, db'.vis)
  BY <1>8, <1>10
<1>13. CASE \E g : Failed(g)
  BY <1>11, <1>13, <1>12, FailedBase
<1>14. CASE c = PlayedChanges /\ pc'.task = pc.task
  <2>1. PlayedBlocks = Records(pager, J)
    BY <1>2, OwnPlayed
  <2>2. c = all
    BY <1>14 DEF all
  <2>3. \A b : b \in DOMAIN c <=> b \in Records(pager, J) /\ J[b].pgno <= orig
    BY <1>5, <2>1, <2>2 DEF ReadFrom
  <2>4. OncePerPage(c)
    BY <1>3, <1>5, <2>2, <2>3 DEF OncePerPage, RecordsRight, ReadFrom
  <2>5. ASSUME NEW b \in RecordsIn(J, 1, h) PROVE b \in Low(c)
    <3>1. b \in Records(pager, J) /\ b <= h
      BY <1>4 DEF RecordsIn, Records
    <3>2. J[b].pgno \in 1 .. orig
      BY <1>3, <3>1 DEF RecordsRight, PagerType
    <3>3. QED
      BY <1>4, <2>3, <3>1, <3>2 DEF Low
  <2>6. \A b \in RecordsIn(J, 1, h) : w[J[b].pgno] = J[b].data
    BY <1>6, <1>9, <2>4, <2>5
  <2>7. \A p \in 1 .. orig : (\A b \in RecordsIn(J, 1, h) : J[b].pgno # p) => w[p] = f[p]
    BY <1>10 DEF Untouched
  <2>8. Recovers(J, h, orig, f, w)
    BY <1>6, <2>6, <2>7 DEF Recovers, DataFile
  <2>9. Base = FileImage(w)
    BY <2>8, OriginalNow DEF Opened3
  <2>10. (Base = FileImage(db.vis))'
    BY <1>8, <1>11, <2>9
  <2>11. pc'.task = "rollback" /\ ~(pc'.task = "recover")
    BY <1>2, <1>14
  <2>12. QED
    BY <1>11, <1>12, <2>10, <2>11 DEF BaseRight
<1>15. QED
  BY <1>1, <1>13, <1>14

\* The recovery from a hot journal stops anywhere, and can be started again.
LEMMA PlaybackHotBase ==
    ASSUME WholeInv, WholeInv', OwnRecords, BaseRight, Playback, pager.eState = "OPEN"
    PROVE  Base' = Base /\ BaseRight' /\ (pc'.at = "syncDb" => db'.vis = RolledBack(db.vis, jrnl.vis))
<1> DEFINE J == jrnl.vis
           f == db.vis
           orig == J[1].orig
           blocks == Blocks(J, 1, Len(J), 0, TRUE)
           full == Changes(J, blocks, orig)
<1>1. PICK c : /\ PartOf(c, PlayedChanges) /\ db'.vis = PlayedFile(c)
               /\ \/ \E g : Failed(g)
                  \/ /\ c = PlayedChanges /\ pc'.task = pc.task
                     /\ pc'.at = IF pager.eState # "CACHEMOD" THEN "syncDb" ELSE "finalize"
  BY PlaybackDoes
<1>2. jrnl' = jrnl /\ setting' = setting /\ pc.task = "recover" /\ pc.at = "playback"
  BY PlaybackDoes
<1>3. Hot(f, J) /\ pager.journalHdr = Len(J)
  BY <1>2 DEF BaseRight
<1>4. DataFile(f) /\ JournalFile(J, ver) /\ Sizes
  BY Bounds DEF WholeInv, Basics
<1>5. /\ Len(J) \in Nat /\ Len(J) > 0 /\ Counted(J, Len(J)) /\ orig \in Nat
      /\ RecordBlocks(J, PlayedBlocks) /\ ReadFrom(PlayedChanges, J, PlayedBlocks, orig)
  <2>1. orig \in 0 .. MaxPages
    BY <1>2, PlayedChangesFacts
  <2>2. QED
    BY <1>2, <2>1, PlayedChangesFacts
<1>6. PlayedChanges = full
  <2> DEFINE one == 1
             limit == Len(J)
             hdr == InProgress(pager)
             none == 0
  <2>1. one \in 1 .. limit /\ limit \in Nat /\ Counted(J, limit)
    BY <1>5
  <2>2. PlayedBlocks = Blocks(J, one, limit, hdr, TRUE)
    <3>1. (pc.task = "recover") = TRUE
      BY <1>2
    <3>2. QED
      BY <3>1 DEF PlayedBlocks
  <2>3. blocks = Blocks(J, one, limit, none, TRUE)
    OBVIOUS
  <2> HIDE DEF one, limit, hdr, none, blocks
  <2>4. Blocks(J, one, limit, hdr, TRUE) = Blocks(J, one, limit, none, TRUE)
    BY <2>1, HotBlocks
  <2>5. QED
    BY <2>2, <2>3, <2>4 DEF PlayedChanges
<1> DEFINE z == Sized(f, orig)
           w == PlayedFile(c)
<1>7. /\ Len(z) = orig /\ DataFile(w) /\ Len(w) = Len(z)
      /\ \A p \in 1 .. Len(z) : w[p] = z[p] \/ \E k \in Low(c) : c[k].pgno = p
  BY <1>1, <1>2, PlayedFileFacts
<1>8. db'.vis = w
  BY <1>1
<1>9. ImageNow(w, J) = FileImage(RolledBack(f, J))
  <2>1. RestoredPart(z, full, w)
    <3>1. ASSUME NEW p \in 1 .. Len(z), w[p] # z[p] PROVE \E k \in DOMAIN full : full[k].pgno = p
      <4>1. PICK k \in Low(c) : c[k].pgno = p
        BY <1>7, <3>1
      <4>2. k \in DOMAIN full /\ c[k] = full[k]
        BY <1>1, <1>6 DEF Low, PartOf
      <4> HIDE DEF full
      <4>3. QED
        BY <4>1, <4>2
    <3> HIDE DEF z, w, full
    <3>2. QED
      BY <1>7, <3>1 DEF RestoredPart
  <2> DEFINE y == full
  <2>2. y = Changes(J, Blocks(J, 1, Len(J), 0, TRUE), J[1].orig) /\ RestoredPart(Sized(f, J[1].orig), y, w)
    BY <2>1
  <2> HIDE DEF w, y, full
  <2>3. QED
    BY <1>3, <1>4, <2>2, PlayedAgain
<1>10. Base' = Base
  <2>1. Base = FileImage(RolledBack(f, J))
    BY <1>3, BaseIs DEF ImageNow
  <2>2. Base' = ImageNow(w, J)
    BY <1>2, <1>8, BaseNext
  <2>3. QED
    BY <1>9, <2>1, <2>2
<1>11. CASE \E g : Failed(g)
  <2>1. pc'.at # "syncDb"
    BY <1>11, IdleFacts DEF Failed, At
  <2>2. QED
    BY <1>10, <1>11, <2>1, FailedBase
<1>12. CASE c = PlayedChanges /\ pc'.task = pc.task /\ pc'.at = IF pager.eState # "CACHEMOD" THEN "syncDb" ELSE "finalize"
  <2>1. Low(c) = DOMAIN c
    <3>1. \A k \in DOMAIN c : k \in 1 .. Len(J)
      BY <1>5, <1>12 DEF RecordBlocks, ReadFrom
    <3>2. \A k \in DOMAIN c : k <= pager.journalHdr
      BY <1>3, <1>5, <3>1
    <3>3. QED
      BY <3>2 DEF Low
  <2>2. w = RolledBack(f, J)
    <3>1. w = Stored(Sized(f, J[1].orig), Latest(c, DOMAIN c))
      BY <2>1 DEF PlayedFile
    <3>2. c = Changes(J, Blocks(J, 1, Len(J), 0, TRUE), J[1].orig)
      BY <1>6, <1>12
    <3> HIDE DEF w
    <3>3. w = Stored(Sized(f, J[1].orig), Pages(c))
      BY <3>1 DEF Pages
    <3>4. QED
      BY <3>2, <3>3, RolledBackIs
  <2>3. Base = FileImage(w)
    BY <1>3, <2>2, BaseIs DEF ImageNow
  <2>4. (Base = FileImage(db.vis))'
    BY <1>8, <1>10, <2>3
  <2>5. pc'.task = "recover" /\ pc'.at = "syncDb"
    BY <1>2, <1>12
  <2>6. BaseRight'
    BY <2>4, <2>5 DEF BaseRight
  <2>7. QED
    BY <1>8, <1>10, <2>2, <2>6
<1>13. QED
  BY <1>1, <1>11, <1>12

\* pager_playback keeps the committed image, wherever it stops.
LEMMA PlaybackBase ==
    ASSUME WholeInv, WholeInv', OwnRecords, BaseRight, Playback
    PROVE  Base' = Base /\ BaseRight'
<1>1. pager.eState \in {"CACHEMOD", "DBMOD", "OPEN"}
  BY PlaybackDoes
<1>2. QED
  BY <1>1, PlaybackCacheBase, PlaybackFileBase, PlaybackHotBase

\* Every step keeps the committed image, but the end of a commit and a power failure.
LEMMA StepBase ==
    ASSUME WholeInv, BaseRight, crashes \in Nat, [Next]_vars
    PROVE  BaseKept /\ BaseRight' /\ crashes' \in Nat
<1>1. WholeInv'
  BY StepWhole
<1>2. crashes' \in Nat /\ (PowerFailure => crashes' # crashes)
  <2>1. crashes' \in {crashes, crashes + 1}
    BY DEF vars, Next, SharedLock, Begin, ChangePage, AddPage, ChangeFails, OpenSavepoint, Release, RollbackTo,
           RollbackToStart, RollbackToFails, CommitPhaseOne, Spill, Rollback, Playback, SyncRecords, WriteCount,
           SyncCount, WritePages, SyncDb, Finalize, Shrink, Unlock, PowerFailure
  <2>2. PowerFailure => crashes' = crashes + 1
    BY DEF PowerFailure
  <2>3. QED
    BY <2>1, <2>2
<1>3. CASE ~OwnRecords'
  <2>1. BaseRight' /\ BaseKept
    BY <1>3 DEF BaseRight, BaseKept
  <2>2. QED
    BY <1>2, <2>1
<1>4. CASE OwnRecords'
  <2>1. OwnRecords
    BY <1>4, OwnBefore
  <2>2. (Base' = Base \/ Ends \/ crashes' # crashes) /\ BaseRight'
    <3>1. CASE UNCHANGED vars
      BY <3>1, StutterBase
    <3>2. CASE PowerFailure
      BY <1>2, <3>2, PowerFailureBase
    <3>3. CASE SharedLock \/ Begin \/ ChangePage \/ AddPage \/ ChangeFails
      BY <1>1, <1>4, <2>1, <3>3, SharedLockBase, BeginBase, ChangePageBase, ChangeFailsBase
    <3>4. CASE OpenSavepoint \/ Release \/ Spill \/ Unlock
      BY <3>4, QuietBase
    <3>5. CASE RollbackTo \/ RollbackToStart \/ RollbackToFails
      BY <1>1, <1>4, <2>1, <3>5, RollbackToBase, RollbackToStartBase, RollbackToFailsBase
    <3>6. CASE CommitPhaseOne \/ Rollback \/ Playback
      BY <1>1, <1>4, <2>1, <3>6, CommitPhaseOneBase, RollbackBase, PlaybackBase
    <3>7. CASE SyncRecords \/ WriteCount \/ SyncCount
      BY <1>1, <1>4, <2>1, <3>7, SyncRecordsBase, WriteCountBase, SyncCountBase
    <3>8. CASE WritePages \/ SyncDb
      BY <1>1, <1>4, <2>1, <3>8, WritePagesBase, SyncDbBase
    <3>9. CASE Finalize \/ Shrink
      BY <1>1, <1>4, <2>1, <3>9, FinalizeBase, ShrinkBase
    <3>10. QED
      BY <3>1, <3>2, <3>3, <3>4, <3>5, <3>6, <3>7, <3>8, <3>9 DEF Next
  <2>3. BaseKept
    BY <2>2 DEF BaseKept
  <2>4. QED
    BY <1>2, <2>2, <2>3
<1>5. QED
  BY <1>3, <1>4

(***************************************************************************)
(* What a power failure leaves, as long as no call has failed and the      *)
(* records are synced before their count.                                  *)
(***************************************************************************)
(***************************************************************************)
(* Power failures.                                                         *)
(***************************************************************************)
\* The file g has the pages that a reader of f sees: behind them it may be longer.
Cut(f, g) == 0 < Len(f) /\ Len(f) <= Len(g) /\ f[1].n <= Len(f) /\ \A p \in 1 .. Len(f) : g[p] = f[p]
Firm(d) == d.safe = d.vis \/ Cut(d.vis, d.safe)

\* What is synced of the two files of a recovery, and of the transaction that has opened its journal.
OpenCrash ==
    pager.eState = "OPEN" =>
        /\ MagicAt(jrnl.vis, 1) =>
              gone = NoFile /\ jrnl.vis[1].orig <= Len(db.safe) /\ (pc.at # "syncDb" => db.safe = db.vis)
        /\ pc.at = "syncDb" => Hot(db.safe, jrnl.vis) /\ db.vis = RolledBack(db.safe, jrnl.vis)
WriterCrash ==
    /\ pager.eState = "CACHEMOD" => ~MagicAt(jrnl.safe, 1)
    /\ pager.eState \in {"DBMOD", "FINISHED"} =>
          /\ gone = NoFile /\ pager.dbOrigSize <= Len(db.safe)
          /\ Untouched(jrnl.vis, pager.journalHdr, pager.dbOrigSize, db.vis, db.safe)
    /\ pc.at \in {"writeCount", "syncCount"} => gone = NoFile
    /\ pc.at = "writeCount" => jrnl.safe = jrnl.vis
    /\ pc.at = "syncCount" =>
          Len(jrnl.safe) = Len(jrnl.vis) /\ \A i \in 1 .. Len(jrnl.vis) : i # pager.header => jrnl.safe[i] = jrnl.vis[i]
    /\ pager.header # 0 /\ pc.at # "syncCount" => ~jrnl.vis[pager.header].magic

\* A journal that was unlinked, and comes back in any part, gives one of the two images.
GoneRight ==
    gone # NoFile =>
        \A J \in Survivors(gone, Junk) :
            /\ ImageNow(db.vis, J) \in {Base, Prev}
            /\ MagicAt(J, 1) => J[1].orig <= Len(db.vis) /\ (pc.at = "shrink" => J[1].orig <= pager.dbSize)

SyncedFiles ==
    /\ pager.eState # "ERROR" /\ pc.at # "mustRollBack"
    /\ pager.eState \in {"OPEN", "READER", "LOCKED"} => jrnl.safe = jrnl.vis
    /\ pager.eState \in {"OPEN", "READER", "LOCKED", "CACHEMOD"} /\ pc.at # "syncDb" => Firm(db)
    /\ pc.at \in {"finalize", "shrink"} /\ pager.eState \notin {"LOCKED", "CACHEMOD"} => db.safe = db.vis

CrashNow == SyncedFiles /\ OpenCrash /\ WriterCrash /\ GoneRight
CrashRight == Calm => CrashNow

\* Of a file that is synced, all survives,
LEMMA SyncedSurvives ==
    ASSUME NEW d, Numbered(d.vis), d.safe = d.vis, NEW torn, NEW f \in Survivors(d, torn)
    PROVE  f = d.vis
<1>1. /\ Numbered(f) /\ Len(f) = Len(d.vis) /\ Len(d.vis) \in Nat
      /\ \A p \in 1 .. Len(f) : p <= Len(d.safe) /\ p <= Len(d.vis) /\ d.safe[p] = d.vis[p] => f[p] = d.vis[p]
  BY SurvivorFacts DEF Numbered
<1>2. \A p \in 1 .. Len(f) : f[p] = d.vis[p]
  BY <1>1
<1>3. QED
  BY <1>1, <1>2, SameFile

\* and of one that was cut behind what a reader sees, this.
LEMMA FirmSurvives ==
    ASSUME NEW d, Numbered(d.vis), Numbered(d.safe), Firm(d), NEW torn, NEW f \in Survivors(d, torn)
    PROVE  f = d.vis \/ Cut(d.vis, f)
<1>1. CASE d.safe = d.vis
  BY <1>1, SyncedSurvives
<1>2. CASE Cut(d.vis, d.safe)
  <2>1. /\ Len(f) \in {Len(d.safe), Len(d.vis)} /\ Len(d.vis) \in Nat /\ Len(d.safe) \in Nat
        /\ \A p \in 1 .. Len(f) : p <= Len(d.safe) /\ p <= Len(d.vis) /\ d.safe[p] = d.vis[p] => f[p] = d.vis[p]
    <3>1. Len(d.vis) \in Nat /\ Len(d.safe) \in Nat
      BY DEF Numbered
    <3>2. QED
      BY <3>1, SurvivorFacts
  <2>2. 0 < Len(d.vis) /\ Len(d.vis) <= Len(d.safe) /\ d.vis[1].n <= Len(d.vis)
        /\ \A p \in 1 .. Len(d.vis) : d.safe[p] = d.vis[p]
    BY <1>2 DEF Cut
  <2>3. \A p \in 1 .. Len(d.vis) : f[p] = d.vis[p]
    BY <2>1, <2>2
  <2>4. QED
    BY <2>1, <2>2, <2>3 DEF Cut
<1>3. QED
  BY <1>1, <1>2 DEF Firm

\* Two files that agree so far have the same image,
LEMMA CutImage ==
    ASSUME Sizes, NEW f, DataFile(f), NEW g, DataFile(g), Cut(f, g)
    PROVE  FileImage(g) = FileImage(f)
<1>1. Numbered(f) /\ Numbered(g) /\ Len(f) \in Nat /\ Len(g) \in Nat /\ 0 < Len(f) /\ Len(f) <= Len(g)
      /\ f[1].n <= Len(f) /\ \A p \in 1 .. Len(f) : g[p] = f[p]
  BY DEF Cut, DataFile, Numbered
<1>2. f # <<>> /\ g # <<>>
  BY <1>1
<1>3. 1 \in 1 .. Len(f) /\ f[1].n \in Nat
  <2>1. 1 \in 1 .. Len(f)
    BY <1>1
  <2>2. f[1] \in Page
    BY <2>1 DEF DataFile
  <2>3. QED
    BY <2>1, <2>2 DEF Page, Sizes
<1>4. \A p : p \notin DOMAIN <<>>
  OBVIOUS
<1>5. \A p \in 1 .. Len(f) : Get(<<>>, g, Len(g), p) = f[p] /\ Get(<<>>, f, Len(f), p) = f[p]
  BY <1>1, <1>4 DEF Get
<1> DEFINE n == f[1].n
<1>6. Get(<<>>, g, Len(g), 1).n = n /\ Get(<<>>, f, Len(f), 1).n = n
  BY <1>3, <1>5
<1>7. \A p \in 1 .. n : p \in 1 .. Len(f)
  BY <1>1, <1>3
<1> HIDE DEF n
<1>8. Image(<<>>, g, Len(g)) = [p \in 1 .. n |-> Get(<<>>, g, Len(g), p)]
  BY <1>6 DEF Image
<1>9. Image(<<>>, f, Len(f)) = [p \in 1 .. n |-> Get(<<>>, f, Len(f), p)]
  BY <1>6 DEF Image
<1>10. \A p \in 1 .. n : Get(<<>>, g, Len(g), p) = Get(<<>>, f, Len(f), p)
  BY <1>5, <1>7
<1>11. Image(<<>>, g, Len(g)) = Image(<<>>, f, Len(f))
  BY <1>8, <1>9, <1>10
<1>12. QED
  BY <1>2, <1>11 DEF FileImage

\* and are played back to the same file.
LEMMA SizedAlike ==
    ASSUME NEW f, Numbered(f), NEW g, Numbered(g), NEW n \in Nat, n <= Len(f), n <= Len(g),
           \A p \in 1 .. n : g[p] = f[p]
    PROVE  Sized(g, n) = Sized(f, n)
<1>1. Len(f) \in Nat /\ Len(g) \in Nat
  BY DEF Numbered
<1>2. /\ Numbered(Sized(f, n)) /\ Len(Sized(f, n)) = n /\ \A p \in 1 .. n : Sized(f, n)[p] = IF p <= Len(f) THEN f[p] ELSE Zero
      /\ Numbered(Sized(g, n)) /\ Len(Sized(g, n)) = n /\ \A p \in 1 .. n : Sized(g, n)[p] = IF p <= Len(g) THEN g[p] ELSE Zero
  BY SizedFacts
<1>3. \A p \in 1 .. n : Sized(g, n)[p] = Sized(f, n)[p]
  BY <1>1, <1>2
<1>4. QED
  BY <1>2, <1>3, SameFile

\* Files that are one when cut to the original size are one when rolled back.
LEMMA SameReads ==
    ASSUME NEW f, NEW g, NEW J, Sized(g, J[1].orig) = Sized(f, J[1].orig)
    PROVE  RolledBack(g, J) = RolledBack(f, J)
  BY RolledBackIs

\* What a reader finds in a firm file after a power failure.
LEMMA FirmReads ==
    ASSUME Sizes, NEW f, DataFile(f), NEW g, DataFile(g), g = f \/ Cut(f, g),
           NEW J, Len(J) \in Nat, MagicAt(J, 1) => J[1].orig \in Nat /\ J[1].orig <= Len(f)
    PROVE  ImageNow(g, J) = ImageNow(f, J)
<1>1. CASE g = f
  BY <1>1
<1>2. CASE Cut(f, g)
  <2>1. Numbered(f) /\ Numbered(g) /\ Len(f) \in Nat /\ Len(g) \in Nat /\ 0 < Len(f) /\ Len(f) <= Len(g)
        /\ \A p \in 1 .. Len(f) : g[p] = f[p]
    BY <1>2 DEF Cut, DataFile, Numbered
  <2>2. Hot(g, J) <=> Hot(f, J)
    BY <2>1 DEF Hot
  <2>3. CASE Hot(f, J)
    <3>1. J[1].orig \in Nat /\ J[1].orig <= Len(f)
      BY <2>3 DEF Hot, MagicAt
    <3> DEFINE n == J[1].orig
    <3>2. n \in Nat /\ n <= Len(f) /\ n <= Len(g) /\ \A p \in 1 .. n : g[p] = f[p]
      BY <2>1, <3>1
    <3> HIDE DEF n
    <3>3. Sized(g, n) = Sized(f, n)
      BY <2>1, <3>2, SizedAlike
    <3>4. RolledBack(g, J) = RolledBack(f, J)
      BY <3>3, SameReads DEF n
    <3>5. QED
      BY <2>2, <2>3, <3>4 DEF ImageNow
  <2>4. CASE ~Hot(f, J)
    BY <1>2, <2>2, <2>4, CutImage DEF ImageNow
  <2>5. QED
    BY <2>3, <2>4
<1>3. QED
  BY <1>1, <1>2

\* Before its first sync a transaction has not changed the file.
LEMMA FirstBase ==
    ASSUME WholeInv, OwnRecords, pager.eState = "CACHEMOD"
    PROVE  Base = FileImage(db.vis) /\ pager.dbOrigSize = Len(db.vis) /\ pager.journalHdr = 0
<1>1. pager.eState \in Opened3
  BY DEF Opened3
<1>2. pager.journalHdr = 0 /\ Len(db.vis) = pager.dbOrigSize /\ DataFile(db.vis)
  BY <1>1 DEF WholeInv, WriterRight, Layout, CacheRight, Basics
<1>3. Numbered(db.vis)
  BY <1>2 DEF DataFile
<1>4. RecordsIn(jrnl.vis, 1, 0) = {}
  BY DEF RecordsIn
<1>5. Recovers(jrnl.vis, pager.journalHdr, pager.dbOrigSize, db.vis, db.vis)
  BY <1>2, <1>3, <1>4 DEF Recovers
<1>6. QED
  BY <1>1, <1>2, <1>5, OriginalNow

\* The journal of a transaction that has not written the file: it is as it is read, or has no
\* valid header.
LEMMA FirstJournal ==
    ASSUME WholeInv, SyncedFiles, WriterCrash, pager.eState = "CACHEMOD", NEW K \in Survivors(jrnl, Junk)
    PROVE  JournalFile(K, ver) /\ (K = jrnl.vis \/ ~MagicAt(K, 1))
<1> DEFINE J == jrnl.vis
           safe == jrnl.safe
<1>1. JournalFile(J, ver) /\ JournalFile(safe, ver)
  BY DEF WholeInv, Basics
<1>2. JournalFile(K, ver)
  BY <1>1, SurvivingJournal
<1>3. Numbered(J) /\ Numbered(safe) /\ Numbered(K) /\ Len(J) \in Nat /\ Len(safe) \in Nat /\ Len(K) \in Nat
  BY <1>1, <1>2 DEF JournalFile, Numbered
<1>4. pager.header = 1 /\ 0 < Len(J) /\ J[1].kind = "hdr"
  <2>1. pager.eState \in Opened3 /\ PagerType(pager)
    BY DEF Opened3, WholeInv, Basics
  <2>2. Layout(pager, J)
    BY <2>1 DEF WholeInv, WriterRight
  <2>3. QED
    BY <1>3, <2>1, <2>2 DEF Layout, LastOf, PagerType
<1>5. /\ Len(K) \in {Len(safe), Len(J)}
      /\ \A p \in 1 .. Len(K) : p <= Len(safe) /\ p <= Len(J) /\ safe[p] = J[p] => K[p] = J[p]
      /\ \A p \in 1 .. Len(K) : K[p] = Junk \/ (p \in 1 .. Len(safe) /\ K[p] = safe[p]) \/ (p \in 1 .. Len(J) /\ K[p] = J[p])
  BY <1>3, SurvivorFacts
<1>6. ~MagicAt(safe, 1)
  BY DEF WriterCrash
<1>7. SUFFICES ASSUME MagicAt(K, 1) PROVE K = J
  BY <1>2
<1>8. 1 <= Len(K) /\ K[1].kind = "hdr" /\ K[1].magic
  BY <1>7 DEF MagicAt
<1>9. K[1] = J[1]
  <2>1. K[1] # Junk
    BY <1>8 DEF Junk
  <2>2. ~(1 \in 1 .. Len(safe) /\ K[1] = safe[1])
    BY <1>6, <1>8 DEF MagicAt
  <2>3. QED
    BY <1>3, <1>5, <1>8, <2>1, <2>2
<1>10. CASE pc.at = "syncCount"
  <2>1. Len(safe) = Len(J) /\ \A i \in 1 .. Len(J) : i # 1 => safe[i] = J[i]
    BY <1>4, <1>10 DEF WriterCrash
  <2>2. Len(K) = Len(J) /\ \A p \in 1 .. Len(K) : K[p] = J[p]
    BY <1>3, <1>5, <1>9, <2>1
  <2>3. QED
    BY <1>3, <2>2, SameFile
<1>11. CASE pc.at # "syncCount"
  BY <1>4, <1>8, <1>9, <1>11 DEF WriterCrash
<1>12. QED
  BY <1>10, <1>11

\* Whatever of the journal of a transaction survives: its whole segments do.
LEMMA SegmentsSurvive ==
    ASSUME WholeInv, SyncedFiles, WriterCrash, pager.eState \in {"DBMOD", "FINISHED"}, NEW K \in Survivors(jrnl, Junk)
    PROVE  /\ JournalFile(K, ver) /\ MagicAt(K, 1) /\ K[1].orig = pager.dbOrigSize
           /\ K = jrnl.vis \/ /\ pager.journalHdr <= Len(K) /\ 0 < Len(K) /\ ~MagicAt(K, pager.journalHdr + 1)
                              /\ \A i \in 1 .. pager.journalHdr : K[i] = jrnl.vis[i]
                              /\ K[1].kind = "hdr"
<1> DEFINE J == jrnl.vis
           safe == jrnl.safe
           h == pager.journalHdr
<1>1. JournalFile(J, ver) /\ JournalFile(safe, ver) /\ PagerType(pager)
  BY DEF WholeInv, Basics
<1>2. JournalFile(K, ver)
  BY <1>1, SurvivingJournal
<1>3. Numbered(J) /\ Numbered(safe) /\ Numbered(K) /\ Len(J) \in Nat /\ Len(safe) \in Nat /\ Len(K) \in Nat
  BY <1>1, <1>2 DEF JournalFile, Numbered
<1>4. pager.eState \in Opened3
  BY DEF Opened3
<1>5. Layout(pager, J) /\ SyncedRight(pager, J, safe)
  BY <1>4 DEF WholeInv, WriterRight
<1>6. h \in Nat /\ h # 0 /\ h <= Len(J) /\ J[1].kind = "hdr" /\ J[1].orig = pager.dbOrigSize
  <2>1. h \in Nat /\ pager.nRec \in Nat
    BY <1>1 DEF PagerType
  <2>2. h <= LastOf(pager)
    BY <2>1 DEF LastOf
  <2>3. LastOf(pager) \in Nat
    BY <2>1 DEF LastOf
  <2>4. h # 0
    BY <1>5 DEF Layout
  <2>5. QED
    BY <1>3, <1>5, <2>1, <2>2, <2>3, <2>4 DEF Layout
<1>7. J[1].magic
  <2>1. 1 \in 1 .. h /\ Segments(J, h, pager.dbOrigSize)
    BY <1>5, <1>6 DEF Layout
  <2>2. QED
    BY <1>6, <2>1 DEF Segments, IsSegment
<1>8. /\ Len(K) \in {Len(safe), Len(J)}
      /\ \A p \in 1 .. Len(K) : p <= Len(safe) /\ p <= Len(J) /\ safe[p] = J[p] => K[p] = J[p]
      /\ \A p \in 1 .. Len(K) : K[p] = Junk \/ (p \in 1 .. Len(safe) /\ K[p] = safe[p]) \/ (p \in 1 .. Len(J) /\ K[p] = J[p])
  BY <1>3, SurvivorFacts
<1>9. Len(safe) >= h /\ (\A i \in 1 .. h : safe[i] = J[i]) /\ ~MagicAt(safe, h + 1)
  BY <1>5, <1>6 DEF SyncedRight
<1>10. h <= Len(K) /\ \A i \in 1 .. h : K[i] = J[i]
  <2>1. h <= Len(K)
    BY <1>3, <1>6, <1>8, <1>9
  <2>2. \A i \in 1 .. h : i \in 1 .. Len(K) /\ i <= Len(safe) /\ i <= Len(J) /\ safe[i] = J[i]
    BY <1>3, <1>6, <1>9, <2>1
  <2>3. QED
    BY <1>8, <2>1, <2>2
<1>11. 0 < Len(K) /\ K[1] = J[1]
  BY <1>3, <1>6, <1>10
<1>12. MagicAt(K, 1) /\ K[1].orig = pager.dbOrigSize /\ K[1].kind = "hdr"
  BY <1>3, <1>6, <1>7, <1>11 DEF MagicAt
<1>13. ASSUME MagicAt(K, h + 1) PROVE K = J
  <2>1. h + 1 <= Len(K) /\ K[h + 1].kind = "hdr" /\ K[h + 1].magic
    BY <1>13 DEF MagicAt
  <2>2. h + 1 <= Len(J) /\ K[h + 1] = J[h + 1]
    <3>1. K[h + 1] # Junk
      BY <2>1 DEF Junk
    <3>2. ~(h + 1 \in 1 .. Len(safe) /\ K[h + 1] = safe[h + 1])
      BY <1>3, <1>6, <1>9, <2>1 DEF MagicAt
    <3>3. QED
      BY <1>3, <1>6, <1>8, <2>1, <3>1, <3>2
  <2>3. MagicAt(J, h + 1)
    BY <2>1, <2>2 DEF MagicAt
  <2>4. pager.header = h + 1 /\ pager.header # 0
    BY <1>5, <1>6, <2>3 DEF Layout
  <2>5. CASE pc.at = "syncCount"
    <3>1. Len(safe) = Len(J) /\ \A i \in 1 .. Len(J) : i # h + 1 => safe[i] = J[i]
      BY <2>4, <2>5 DEF WriterCrash
    <3>2. Len(K) = Len(J) /\ \A p \in 1 .. Len(K) : K[p] = J[p]
      BY <1>3, <1>8, <2>2, <3>1
    <3>3. QED
      BY <1>3, <3>2, SameFile
  <2>6. CASE pc.at # "syncCount"
    BY <2>3, <2>4, <2>6 DEF WriterCrash, MagicAt
  <2>7. QED
    BY <2>5, <2>6
<1>14. QED
  BY <1>2, <1>10, <1>11, <1>12, <1>13

\* So the whole journal is played back from them to the committed image, into whatever of the file survives.
LEMMA WriterSurvives ==
    ASSUME WholeInv, OwnRecords, SyncedFiles, WriterCrash, pager.eState \in {"DBMOD", "FINISHED"},
           NEW K \in Survivors(jrnl, Junk), NEW w, w = db.vis \/ w \in Survivors(db, Torn)
    PROVE  ImageNow(w, K) = Base /\ MagicAt(K, 1) /\ K[1].orig = pager.dbOrigSize /\ pager.dbOrigSize <= Len(w)
<1> DEFINE J == jrnl.vis
           f == db.vis
           safe == db.safe
           h == pager.journalHdr
           orig == pager.dbOrigSize
<1>1. pager.eState \in Opened3
  BY DEF Opened3
<1>2. DataFile(f) /\ DataFile(safe) /\ PagerType(pager) /\ Sizes
  BY Bounds DEF WholeInv, Basics
<1>3. Numbered(f) /\ Numbered(safe) /\ Len(f) \in Nat /\ Len(safe) \in Nat /\ orig \in Nat
  BY <1>2 DEF DataFile, Numbered, PagerType
<1>4. orig <= Len(f) /\ h # 0
  BY <1>1 DEF WholeInv, WriterRight, CacheRight, Layout
<1>5. orig <= Len(safe) /\ Untouched(J, h, orig, f, safe)
  BY DEF WriterCrash
<1>6. DataFile(w) /\ orig <= Len(w) /\ Untouched(J, h, orig, f, w)
  <2>1. CASE w = f
    BY <1>2, <1>4, <2>1 DEF Untouched
  <2>2. CASE w \in Survivors(db, Torn)
    <3>1. DataFile(w)
      BY <1>2, <2>2, SurvivingData
    <3>2. /\ Len(w) \in {Len(safe), Len(f)}
          /\ \A p \in 1 .. Len(w) : p <= Len(safe) /\ p <= Len(f) /\ safe[p] = f[p] => w[p] = f[p]
      BY <1>3, <2>2, SurvivorFacts
    <3>3. orig <= Len(w)
      BY <1>4, <1>5, <3>2
    <3>4. \A p \in 1 .. orig : p \in 1 .. Len(w) /\ p <= Len(safe) /\ p <= Len(f)
      BY <1>3, <1>4, <1>5, <3>2
    <3>5. Untouched(J, h, orig, f, w)
      BY <1>5, <3>2, <3>4 DEF Untouched
    <3>6. QED
      BY <3>1, <3>3, <3>5
  <2>3. QED
    BY <2>1, <2>2
<1>7. /\ JournalFile(K, ver) /\ MagicAt(K, 1) /\ K[1].orig = orig
      /\ K = J \/ /\ h <= Len(K) /\ 0 < Len(K) /\ ~MagicAt(K, h + 1)
                  /\ \A i \in 1 .. h : K[i] = J[i]
                  /\ K[1].kind = "hdr"
  BY SegmentsSurvive
<1>8. OneEach(J, h, orig) /\ h \in Nat
  BY <1>1, OneWhole
<1>9. PICK r : Recovers(J, h, orig, f, r)
  BY <1>3, <1>8, OriginalExists
<1>10. ImageNow(w, K) = FileImage(r)
  BY <1>1, <1>4, <1>6, <1>7, <1>9, OriginalAny
<1>11. Base = FileImage(r)
  BY <1>1, <1>9, OriginalNow
<1>12. QED
  BY <1>6, <1>7, <1>10, <1>11

\* All that was synced may survive alone.
LEMMA SafeSurvives ==
    ASSUME NEW d, Numbered(d.vis), Numbered(d.safe), NEW torn
    PROVE  d.safe \in Survivors(d, torn)
<1> DEFINE old == d.safe
           new == d.vis
           n == Len(old)
           kept(m) == {p \in 1 .. m : p <= Len(old) /\ p <= Len(new) /\ old[p] = new[p]}
           made(m, how) == [p \in 1 .. m |->
               IF p \in kept(m) \/ (how[p] = "old" /\ p <= Len(old)) THEN old[p]
               ELSE IF how[p] = "new" /\ p <= Len(new) THEN new[p] ELSE torn]
           how == [p \in 1 .. n \ kept(n) |-> "old"]
<1>1. n \in Nat /\ old = [p \in 1 .. n |-> old[p]]
  BY DEF Numbered
<1>2. how \in [1 .. n \ kept(n) -> {"old", "new", "torn"}]
  OBVIOUS
<1>3. \A p \in 1 .. n : p \in kept(n) \/ (how[p] = "old" /\ p <= Len(old))
  BY <1>1
<1>4. made(n, how) = [p \in 1 .. n |-> old[p]]
  BY <1>3
<1>5. made(n, how) = old
  BY <1>1, <1>4
<1>6. Survivors(d, torn) = UNION {{made(m, h) : h \in [1 .. m \ kept(m) -> {"old", "new", "torn"}]} : m \in {Len(old), Len(new)}}
  BY DEF Survivors
<1> HIDE DEF made, how, kept, old, new
<1>7. old \in Survivors(d, torn)
  BY <1>2, <1>5, <1>6
<1>8. QED
  BY <1>7 DEF old

\* Whatever of the file survives while a hot journal is played back: it is played back to the committed image.
LEMMA RecoverySurvives ==
    ASSUME WholeInv, OwnRecords, BaseRight, OpenCrash, pager.eState = "OPEN", pc.at = "syncDb", NEW f \in Survivors(db, Torn)
    PROVE  ImageNow(f, jrnl.vis) = Base /\ jrnl.vis[1].orig <= Len(f)
<1> DEFINE J == jrnl.vis
           s == db.safe
           d == db.vis
           orig == J[1].orig
           c == Changes(J, Blocks(J, 1, Len(J), 0, TRUE), J[1].orig)
           z == Sized(s, orig)
           l == Pages(c)
           w == Sized(f, orig)
<1>1. DataFile(s) /\ DataFile(d) /\ JournalFile(J, ver) /\ Sizes
  BY Bounds DEF WholeInv, Basics
<1>2. Numbered(s) /\ Numbered(d) /\ Len(s) \in Nat /\ Len(d) \in Nat
  BY <1>1 DEF DataFile, Numbered
<1>3. Hot(s, J) /\ d = RolledBack(s, J)
  BY DEF OpenCrash
<1>4. /\ Len(J) \in Nat /\ Len(J) > 0 /\ J[1].kind = "hdr" /\ J[1].magic /\ orig \in Nat /\ orig <= MaxPages
      /\ Numbered(z) /\ Len(z) = orig
      /\ DOMAIN l \subseteq 1 .. orig /\ (\A p : p \in DOMAIN l <=> \E k \in DOMAIN c : c[k].pgno = p)
      /\ d = Stored(z, l) /\ Len(d) = orig
      /\ \A p \in 1 .. orig : d[p] = IF p \in DOMAIN l THEN l[p] ELSE z[p]
  <2>1. HotEffect(J, c, z, l, RolledBack(s, J))
    BY <1>1, <1>3, HotPages
  <2> HIDE DEF c, z, l, d
  <2>2. HotEffect(J, c, z, l, d)
    BY <1>3, <2>1
  <2>3. QED
    BY <2>2 DEF HotEffect
<1>5. orig <= Len(s)
  <2>1. MagicAt(J, 1)
    BY <1>4 DEF MagicAt
  <2>2. QED
    BY <2>1 DEF OpenCrash
<1>6. /\ Numbered(f) /\ Len(f) \in {Len(s), Len(d)} /\ DataFile(f)
      /\ \A p \in 1 .. Len(f) : p <= Len(s) /\ p <= Len(d) /\ s[p] = d[p] => f[p] = d[p]
  BY <1>1, <1>2, SurvivorFacts, SurvivingData
<1>7. orig <= Len(f) /\ Len(f) \in Nat
  <2>1. orig \in Nat /\ Len(d) = orig
    BY <1>4
  <2> HIDE DEF orig
  <2>2. QED
    BY <1>2, <1>5, <1>6, <2>1
<1>8. /\ \A p \in 1 .. orig : z[p] = IF p <= Len(s) THEN s[p] ELSE Zero
      /\ Numbered(w) /\ Len(w) = orig /\ \A p \in 1 .. orig : w[p] = IF p <= Len(f) THEN f[p] ELSE Zero
  <2>1. orig \in Nat
    BY <1>4
  <2> HIDE DEF orig
  <2>2. QED
    BY <1>2, <1>6, <2>1, SizedFacts
<1>9. DataFile(w)
  <2>1. orig \in 0 .. MaxPages
    BY <1>1, <1>4 DEF Sizes
  <2> HIDE DEF orig
  <2>2. QED
    BY <1>1, <1>6, <2>1, SizedFile
<1> HIDE DEF c, l, z, w
<1>10. RestoredPart(z, c, w)
  <2>1. ASSUME NEW p \in 1 .. Len(z), ~\E k \in DOMAIN c : c[k].pgno = p
        PROVE  w[p] = z[p]
    <3>1. p \in 1 .. orig /\ p <= Len(s) /\ p <= Len(f) /\ p <= Len(d)
      BY <1>2, <1>4, <1>5, <1>7, <2>1
    <3>2. d[p] = z[p] /\ z[p] = s[p] /\ w[p] = f[p]
      BY <1>4, <1>8, <2>1, <3>1
    <3>3. f[p] = d[p]
      BY <1>6, <1>7, <3>1, <3>2
    <3>4. QED
      BY <3>2, <3>3
  <2>2. Len(w) = Len(z)
    BY <1>4, <1>8
  <2>3. QED
    BY <1>9, <2>1, <2>2 DEF RestoredPart
<1>11. ImageNow(w, J) = FileImage(d)
  <2>1. c = Changes(J, Blocks(J, 1, Len(J), 0, TRUE), J[1].orig) /\ RestoredPart(Sized(s, J[1].orig), c, w)
    BY <1>10 DEF c, z
  <2>2. QED
    BY <1>1, <1>3, <2>1, PlayedAgain
<1>12. Base = FileImage(d)
  <2>1. pc.task = "recover"
    BY DEF WholeInv, Flow, Idle
  <2>2. QED
    BY <2>1 DEF BaseRight
<1>13. ImageNow(f, J) = FileImage(d)
  <2>1. CASE Len(f) = 0
    <3>1. orig = 0
      BY <1>4, <1>7, <2>1
    <3>2. w = f
      BY <1>6, <1>8, <2>1, <3>1, SameFile
    <3>3. QED
      BY <1>11, <3>2
  <2>2. CASE Len(f) # 0
    <3>1. Hot(f, J)
      BY <1>4, <1>7, <2>2 DEF Hot
    <3>2. CASE orig = 0
      <4>1. Len(d) = 0 /\ ~Hot(w, J)
        BY <1>4, <1>8, <3>2 DEF Hot
      <4>2. Sized(f, J[1].orig) = Sized(s, J[1].orig)
        <5>1. Len(w) = 0 /\ Len(z) = 0
          BY <1>4, <1>8, <3>2
        <5>2. w = z
          BY <1>4, <1>8, <5>1, SameFile
        <5>3. QED
          BY <5>2 DEF w, z
      <4>3. RolledBack(f, J) = d
        BY <1>3, <4>2, SameReads
      <4>4. QED
        BY <3>1, <4>3 DEF ImageNow
    <3>3. CASE orig # 0
      <4>1. Hot(w, J)
        BY <1>4, <1>8, <3>3 DEF Hot
      <4>2. Sized(w, J[1].orig) = w
        <5> HIDE DEF orig
        <5>1. Sized(w, orig) = w
          BY <1>4, <1>8, SizedFacts
        <5>2. QED
          BY <5>1 DEF orig
      <4>3. Sized(w, J[1].orig) = Sized(f, J[1].orig)
        BY <4>2 DEF w
      <4>4. RolledBack(w, J) = RolledBack(f, J)
        BY <4>3, SameReads
      <4>5. QED
        BY <1>11, <3>1, <4>1, <4>4 DEF ImageNow
    <3>4. QED
      BY <3>2, <3>3
  <2>3. QED
    BY <2>1, <2>2
<1>14. QED
  BY <1>7, <1>12, <1>13

\* Where no call failed, a roll back reads its own records.
LEMMA CalmOwn == Calm => OwnRecords
  BY DEF Calm, OwnRecords

\* What survives of a power failure: a file and a journal that give the committed image, or that of
\* the last commit whose removal of the journal was not synced.
LEMMA WhatSurvives ==
    ASSUME WholeInv, BaseRight, Calm, CrashRight, NEW f \in Survivors(db, Torn),
           NEW J \in Survivors(jrnl, Junk) \cup (IF gone = NoFile THEN {} ELSE Survivors(gone, Junk))
    PROVE  ImageNow(f, J) \in {Base, Prev} /\ (MagicAt(J, 1) => J[1].orig <= Len(f))
<1>1. SyncedFiles /\ OpenCrash /\ WriterCrash /\ GoneRight /\ OwnRecords
  BY CalmOwn DEF CrashRight, CrashNow
<1>2. DataFile(db.vis) /\ DataFile(db.safe) /\ DataFile(f) /\ Sizes /\ JournalFile(jrnl.vis, ver) /\ JournalFile(J, ver)
  <2>1. /\ Sizes /\ DataFile(db.vis) /\ DataFile(db.safe) /\ JournalFile(jrnl.vis, ver) /\ JournalFile(jrnl.safe, ver)
        /\ JournalFile(gone.vis, ver) /\ JournalFile(gone.safe, ver)
    BY Bounds DEF WholeInv, Basics
  <2>2. QED
    BY <2>1, SurvivingData, SurvivingJournal
<1>3. Numbered(db.vis) /\ Numbered(db.safe) /\ Numbered(f) /\ Numbered(jrnl.vis) /\ Len(db.vis) \in Nat /\ Len(f) \in Nat
      /\ Len(J) \in Nat
  BY <1>2 DEF DataFile, JournalFile, Numbered
<1>4. ASSUME MagicAt(J, 1) PROVE J[1].orig \in Nat
  <2>1. 1 \in 1 .. Len(J) /\ J[1].kind = "hdr"
    BY <1>3, <1>4 DEF MagicAt
  <2>2. IsBlock(J[1], ver)
    BY <1>2, <2>1 DEF JournalFile
  <2>3. QED
    BY <1>2, <2>1, <2>2 DEF IsBlock, Sizes
\* of a file that is synced as far as it is read
<1>5. ASSUME Firm(db), MagicAt(J, 1) => J[1].orig <= Len(db.vis)
      PROVE  ImageNow(f, J) = ImageNow(db.vis, J) /\ (MagicAt(J, 1) => J[1].orig <= Len(f))
  <2>1. f = db.vis \/ Cut(db.vis, f)
    BY <1>3, <1>5, FirmSurvives
  <2>2. Len(db.vis) <= Len(f)
    BY <1>3, <2>1 DEF Cut
  <2>3. ImageNow(f, J) = ImageNow(db.vis, J)
    BY <1>2, <1>3, <1>4, <1>5, <2>1, FirmReads
  <2>4. QED
    BY <1>3, <1>4, <1>5, <2>2, <2>3
<1>6. CASE gone # NoFile /\ J \in Survivors(gone, Junk)
  <2>1. pager.eState \notin {"DBMOD", "FINISHED", "ERROR"}
    BY <1>1, <1>6 DEF WriterCrash, SyncedFiles
  <2>2. pc.at # "syncDb"
    <3>1. ASSUME pc.at = "syncDb" PROVE FALSE
      <4>1. pager.eState = "OPEN"
        BY <2>1, <3>1 DEF WholeInv, Flow, Idle
      <4>2. MagicAt(jrnl.vis, 1)
        BY <1>1, <1>2, <3>1, <4>1 DEF OpenCrash, Hot, MagicAt, JournalFile, Numbered
      <4>3. QED
        BY <1>1, <1>6, <4>1, <4>2 DEF OpenCrash
    <3>2. QED
      BY <3>1
  <2>3. pager.eState \in {"OPEN", "READER", "LOCKED", "CACHEMOD"}
    BY <2>1 DEF WholeInv, Basics, PagerType, Writer
  <2>4. Firm(db)
    BY <1>1, <2>2, <2>3 DEF SyncedFiles
  <2>5. ImageNow(db.vis, J) \in {Base, Prev} /\ (MagicAt(J, 1) => J[1].orig <= Len(db.vis))
    BY <1>1, <1>6 DEF GoneRight
  <2>6. QED
    BY <1>5, <2>4, <2>5
<1>7. CASE J \in Survivors(jrnl, Junk)
  <2>1. CASE pager.eState \in {"OPEN", "READER", "LOCKED"}
    <3>1. J = jrnl.vis
      BY <1>1, <1>3, <1>7, <2>1, SyncedSurvives DEF SyncedFiles
    <3>2. CASE pc.at = "syncDb"
      <4>1. pager.eState = "OPEN"
        BY <2>1, <3>2 DEF WholeInv, Flow, Idle
      <4>2. QED
        BY <1>1, <3>1, <3>2, <4>1, RecoverySurvives
    <3>3. CASE pc.at # "syncDb"
      <4>1. Firm(db)
        BY <1>1, <2>1, <3>3 DEF SyncedFiles
      <4>2. ASSUME MagicAt(J, 1) PROVE J[1].orig <= Len(db.vis)
        <5>1. pager.eState = "OPEN"
          BY <2>1, <3>1, <4>2 DEF WholeInv, ReaderRight, LockedRight, Begun
        <5>2. QED
          BY <1>1, <3>1, <3>3, <4>2, <5>1 DEF OpenCrash
      <4>3. ImageNow(f, J) = ImageNow(db.vis, J) /\ (MagicAt(J, 1) => J[1].orig <= Len(f))
        BY <1>5, <4>1, <4>2
      <4>4. QED
        BY <3>1, <4>3, BaseIs DEF ImageNow
    <3>4. QED
      BY <3>2, <3>3
  <2>2. CASE pager.eState = "CACHEMOD"
    <3>1. pc.at # "syncDb"
      BY <2>2 DEF WholeInv, Flow, Idle
    <3>2. Firm(db)
      BY <1>1, <2>2, <3>1 DEF SyncedFiles
    <3>3. J = jrnl.vis \/ ~MagicAt(J, 1)
      BY <1>1, <1>7, <2>2, FirstJournal
    <3>4. Base = FileImage(db.vis) /\ pager.dbOrigSize = Len(db.vis)
      BY <1>1, <2>2, FirstBase
    <3>5. CASE J = jrnl.vis
      <4>1. J[1].orig = pager.dbOrigSize
        BY <2>2, <3>5 DEF WholeInv, WriterRight, Opened3, Layout
      <4>2. J[1].orig <= Len(db.vis)
        BY <1>3, <3>4, <4>1
      <4>3. QED
        BY <1>5, <3>2, <3>5, <4>2, BaseIs DEF ImageNow
    <3>6. CASE ~MagicAt(J, 1)
      <4>1. ~Hot(db.vis, J)
        BY <1>3, <3>6 DEF Hot, MagicAt
      <4>2. ImageNow(f, J) = ImageNow(db.vis, J)
        BY <1>5, <3>2, <3>6
      <4>3. QED
        BY <3>4, <3>6, <4>1, <4>2 DEF ImageNow
    <3>7. QED
      BY <3>3, <3>5, <3>6
  <2>3. CASE pager.eState \in {"DBMOD", "FINISHED"}
    <3>1. ImageNow(f, J) = Base /\ MagicAt(J, 1) /\ J[1].orig = pager.dbOrigSize /\ pager.dbOrigSize <= Len(f)
      BY <1>1, <1>7, <2>3, WriterSurvives
    <3>2. QED
      BY <3>1
  <2>4. QED
    BY <1>1, <2>1, <2>2, <2>3 DEF SyncedFiles, WholeInv, Basics, PagerType, Writer
<1>8. QED
  BY <1>6, <1>7

\* Calm steps follow calm ones.
LEMMA CalmSteps ==
    ASSUME WholeInv, Calm'
    PROVE  /\ MayFail => FALSE
           /\ faults' = faults /\ setting' = setting => Calm /\ OwnRecords /\ OwnRecords'
           /\ FullSync' = TRUE
<1>1. faults' = 0 /\ setting'.fullSync
  BY DEF Calm, FullSync
<1>2. faults \in Nat /\ setting.fullSync \in BOOLEAN
  BY SettingAssumption DEF WholeInv, Basics
<1>3. OwnRecords'
  BY <1>1 DEF OwnRecords
<1>4. ASSUME faults' = faults, setting' = setting PROVE Calm /\ OwnRecords
  BY <1>1, <1>4 DEF Calm, FullSync, OwnRecords
<1>5. MayFail => FALSE
  BY <1>1, <1>2 DEF MayFail
<1>6. QED
  BY <1>1, <1>3, <1>4, <1>5 DEF FullSync

\* The image a power failure may go back to, by the same operator.
LEMMA PrevIs == Prev = ImageNow(db.vis, IF Hot(db.vis, gone.safe) THEN gone.safe ELSE jrnl.safe)
  BY CommittedIs DEF Prev, ImageNow

\* That image in the next state.
LEMMA PrevNext == Prev' = ImageNow(db'.vis, IF Hot(db'.vis, gone'.safe) THEN gone'.safe ELSE jrnl'.safe)
<1>1. (Prev = ImageNow(db.vis, IF Hot(db.vis, gone.safe) THEN gone.safe ELSE jrnl.safe))'
  BY PrevIs, PTL
<1>2. QED
  BY <1>1

\* The journal that is synced matters for its valid header only.
SameSafe == jrnl'.safe = jrnl.safe \/ (~MagicAt(jrnl.safe, 1) /\ ~MagicAt(jrnl'.safe, 1))

\* It is kept while neither the file nor the journal it comes from changes.
LEMMA PrevKept ==
    ASSUME WholeInv, WholeInv', gone' = gone, db'.vis = db.vis, SameSafe
    PROVE  Prev' = Prev
<1>1. Len(jrnl.safe) \in Nat /\ Len(jrnl'.safe) \in Nat
  <2>1. Numbered(jrnl.safe)
    BY DEF WholeInv, Basics, JournalFile
  <2>2. (Numbered(jrnl.safe))'
    BY DEF WholeInv, Basics, JournalFile
  <2>3. QED
    BY <2>1, <2>2 DEF Numbered
<1>2. ImageNow(db.vis, jrnl'.safe) = ImageNow(db.vis, jrnl.safe)
  <2>1. CASE jrnl'.safe = jrnl.safe
    BY <2>1
  <2>2. CASE ~MagicAt(jrnl.safe, 1) /\ ~MagicAt(jrnl'.safe, 1)
    <3>1. ~Hot(db.vis, jrnl.safe) /\ ~Hot(db.vis, jrnl'.safe)
      BY <1>1, <2>2 DEF Hot, MagicAt
    <3>2. QED
      BY <3>1 DEF ImageNow
  <2>3. QED
    BY <2>1, <2>2 DEF SameSafe
<1>3. QED
  BY <1>2, PrevIs, PrevNext

\* A journal that is unlinked keeps what it gives back.
LEMMA GoneKept ==
    ASSUME WholeInv, WholeInv', GoneRight, gone' = gone, db'.vis = db.vis, SameSafe, Base' = Base,
           pc'.at = "shrink" => pc.at = "shrink" /\ pager'.dbSize = pager.dbSize
    PROVE  GoneRight'
<1>1. Prev' = Prev
  BY PrevKept
<1>2. ASSUME gone # NoFile, NEW J \in Survivors(gone, Junk)
      PROVE  /\ ImageNow(db'.vis, J) \in {Base', Prev'}
             /\ MagicAt(J, 1) => J[1].orig <= Len(db'.vis) /\ (pc'.at = "shrink" => J[1].orig <= pager'.dbSize)
  BY <1>1, <1>2 DEF GoneRight
<1>3. gone' # NoFile => \A J \in Survivors(gone', Junk) :
             /\ ImageNow(db'.vis, J) \in {Base', Prev'}
             /\ MagicAt(J, 1) => J[1].orig <= Len(db'.vis) /\ (pc'.at = "shrink" => J[1].orig <= pager'.dbSize)
  BY <1>2
<1>4. QED
  BY <1>3 DEF GoneRight, NoFile

\* Where no journal was unlinked, none comes back.
LEMMA NothingGone == gone' = NoFile => GoneRight'
  BY DEF GoneRight, NoFile

\* What a power failure leaves is one of the two images, and all of it is synced.
LEMMA PowerFailureCrash ==
    ASSUME WholeInv, BaseRight, CrashRight, PowerFailure
    PROVE  Calm => Base' \in {Base, Prev} /\ CrashNow'
<1> SUFFICES ASSUME Calm PROVE Base' \in {Base, Prev} /\ CrashNow'
  OBVIOUS
<1>1. PICK f \in Survivors(db, Torn) : db' = [vis |-> f, safe |-> f]
  BY DEF PowerFailure
<1>2. PICK J \in Survivors(jrnl, Junk) \cup (IF gone = NoFile THEN {} ELSE Survivors(gone, Junk)) :
         jrnl' = [vis |-> J, safe |-> J]
  BY DEF PowerFailure
<1>3. J \in Survivors(jrnl, Junk) \/ (gone # NoFile /\ J \in Survivors(gone, Junk))
  BY <1>2
<1>4. ImageNow(f, J) \in {Base, Prev} /\ (MagicAt(J, 1) => J[1].orig <= Len(f))
  BY <1>1, <1>3, WhatSurvives DEF CrashRight
<1>5. db'.vis = f /\ db'.safe = f /\ jrnl'.vis = J /\ jrnl'.safe = J
  BY <1>1, <1>2
<1>6. Base' \in {Base, Prev}
  BY <1>4, <1>5, BaseNext
<1>7. pager' = Opened /\ pc' = Idle /\ gone' = NoFile
  BY DEF PowerFailure
<1>8. pager'.eState = "OPEN" /\ pager'.header = 0 /\ pc'.at = "idle"
  BY <1>7 DEF Opened, Idle
<1>9. SyncedFiles'
  BY <1>5, <1>8 DEF SyncedFiles, Firm
<1>10. OpenCrash'
  BY <1>4, <1>5, <1>7, <1>8 DEF OpenCrash
<1>11. WriterCrash'
  BY <1>8 DEF WriterCrash
<1>12. QED
  BY <1>6, <1>7, <1>9, <1>10, <1>11, NothingGone DEF CrashNow

\* The initial states are synced.
LEMMA InitCrash == Init => CrashRight
<1> SUFFICES ASSUME Init PROVE CrashNow
  BY DEF CrashRight
<1>1. pager.eState = "OPEN" /\ pager.header = 0 /\ pc.at = "idle" /\ jrnl.vis = <<>> /\ jrnl.safe = jrnl.vis /\ gone = NoFile
  BY DEF Init, Opened, Idle, NoFile
<1>2. db.safe = db.vis
  BY DEF Init
<1>3. ~MagicAt(jrnl.vis, 1)
  BY <1>1 DEF MagicAt
<1>4. SyncedFiles /\ OpenCrash /\ WriterCrash /\ GoneRight
  BY <1>1, <1>2, <1>3 DEF SyncedFiles, OpenCrash, WriterCrash, GoneRight, Firm
<1>5. QED
  BY <1>4 DEF CrashNow

\* A step that changes nothing keeps what is synced.
LEMMA StutterCrash ==
    ASSUME UNCHANGED vars, CrashRight
    PROVE  CrashRight'
<1>1. /\ pager' = pager /\ db' = db /\ jrnl' = jrnl /\ gone' = gone /\ pc' = pc
      /\ faults' = faults /\ setting' = setting
  BY DEF vars
<1>2. Base' = Base /\ Prev' = Prev /\ Calm' = Calm
  BY <1>1, BaseIs, BaseNext, PrevIs, PrevNext DEF Calm, FullSync
<1>3. /\ SyncedFiles' <=> SyncedFiles
      /\ OpenCrash' <=> OpenCrash
      /\ WriterCrash' <=> WriterCrash
  BY <1>1 DEF SyncedFiles, OpenCrash, WriterCrash, Firm
<1>4. GoneRight' <=> GoneRight
  BY <1>1, <1>2 DEF GoneRight, NoFile
<1>5. QED
  BY <1>2, <1>3, <1>4 DEF CrashRight, CrashNow

\* Calls that touch no file.
LEMMA QuietCrash ==
    ASSUME WholeInv, WholeInv', CrashNow, Base' = Base, db' = db, jrnl' = jrnl, gone' = gone, pc = Idle,
           \/ /\ pager.eState \in {"LOCKED", "CACHEMOD", "DBMOD"} /\ pager'.eState = pager.eState
              /\ pager'.dbOrigSize = pager.dbOrigSize /\ pager'.journalHdr = pager.journalHdr /\ pager'.header = pager.header
              /\ pc'.at \in {"idle", "playback", "syncRecords", "writePages"} \/ (pc'.at = "finalize" /\ pager.eState = "LOCKED")
           \/ pager.eState = "READER" /\ pager' = Unlocked(pager) /\ pc' = pc
    PROVE  CrashNow'
<1>1. SyncedFiles /\ OpenCrash /\ WriterCrash /\ GoneRight /\ pc.at = "idle"
  BY IdleFacts DEF CrashNow
<1>2. CASE pager.eState = "READER" /\ pager' = Unlocked(pager) /\ pc' = pc
  <2>1. pager'.eState = "OPEN" /\ pager'.header = 0 /\ pc'.at = "idle"
    BY <1>1, <1>2 DEF Unlocked, Opened
  <2>2. ~MagicAt(jrnl.vis, 1) /\ jrnl.safe = jrnl.vis /\ Firm(db)
    BY <1>1, <1>2 DEF WholeInv, ReaderRight, SyncedFiles
  <2>3. Firm(db)' /\ ~MagicAt(jrnl'.vis, 1) /\ jrnl'.safe = jrnl'.vis
    BY <2>2
  <2>4. SyncedFiles' /\ OpenCrash' /\ WriterCrash'
    BY <2>1, <2>3 DEF SyncedFiles, OpenCrash, WriterCrash
  <2>5. GoneRight'
    BY <1>1, <2>1, GoneKept DEF SameSafe
  <2>6. QED
    BY <2>4, <2>5 DEF CrashNow
<1>3. CASE /\ pager.eState \in {"LOCKED", "CACHEMOD", "DBMOD"} /\ pager'.eState = pager.eState
           /\ pager'.dbOrigSize = pager.dbOrigSize /\ pager'.journalHdr = pager.journalHdr /\ pager'.header = pager.header
           /\ pc'.at \in {"idle", "playback", "syncRecords", "writePages"} \/ (pc'.at = "finalize" /\ pager.eState = "LOCKED")
  <2>1. SyncedFiles'
    BY <1>1, <1>3 DEF SyncedFiles, Firm
  <2>2. OpenCrash'
    BY <1>3 DEF OpenCrash
  <2>3. WriterCrash'
    BY <1>1, <1>3 DEF WriterCrash
  <2>4. pc'.at # "shrink"
    BY <1>3
  <2>5. GoneRight'
    BY <1>1, <2>4, GoneKept DEF SameSafe
  <2>6. QED
    BY <2>1, <2>2, <2>3, <2>5 DEF CrashNow
<1>4. QED
  BY <1>2, <1>3

\* The header in progress is written only after the sync of its records.
LEMMA HeaderUnwritten ==
    WholeInv /\ pager.eState \in Opened3 /\ pager.header # 0 /\ pc.at \notin {"syncCount", "mustRollBack"}
        /\ pc.task # "rollback" => ~jrnl.vis[pager.header].magic
<1> SUFFICES ASSUME WholeInv, pager.eState \in Opened3, pager.header # 0, pc.at \notin {"syncCount", "mustRollBack"},
                    pc.task # "rollback"
             PROVE  ~jrnl.vis[pager.header].magic
  OBVIOUS
<1>1. Layout(pager, jrnl.vis) /\ Stage
  BY DEF WholeInv, WriterRight
<1>2. pager.header = pager.journalHdr + 1
  BY <1>1 DEF Layout
<1>3. QED
  BY <1>1, <1>2 DEF Stage

\* Journals with the same records excuse the same pages.
LEMMA UntouchedOn ==
    ASSUME NEW h \in Nat, NEW J, NEW K, \A i \in 1 .. h : K[i] = J[i], NEW orig,
           NEW f, NEW w, NEW g, Untouched(J, h, orig, f, w), Untouched(J, h, orig, f, g)
    PROVE  Untouched(K, h, orig, g, w)
<1>1. RecordsIn(K, 1, h) = RecordsIn(J, 1, h) /\ \A b \in RecordsIn(J, 1, h) : K[b] = J[b]
  BY DEF RecordsIn
<1>2. QED
  BY <1>1 DEF Untouched

\* Before the first sync of the journal a statement leaves the file as it is.
LEMMA FirstUnchanged ==
    ASSUME WholeInv, WholeInv', setting' = setting, pager.eState = "CACHEMOD", pager'.eState = "CACHEMOD",
           pager'.dbOrigSize = pager.dbOrigSize,
           Untouched(jrnl.vis, pager.journalHdr, pager.dbOrigSize, db.vis, db'.vis)
    PROVE  db'.vis = db.vis
<1>1. pager.eState \in Opened3 /\ pager'.eState \in Opened3
  BY DEF Opened3
<1>2. pager.journalHdr = 0 /\ Len(db.vis) = pager.dbOrigSize /\ DataFile(db.vis)
  BY <1>1 DEF WholeInv, WriterRight, Layout, CacheRight, Basics
<1>3. (Len(db.vis) = pager.dbOrigSize /\ DataFile(db.vis))'
  BY <1>1 DEF WholeInv, WriterRight, CacheRight, Basics
<1>4. Numbered(db.vis) /\ Numbered(db'.vis) /\ Len(db'.vis) = Len(db.vis)
  BY <1>2, <1>3, CarriedTypes DEF DataFile
<1>5. RecordsIn(jrnl.vis, 1, 0) = {}
  BY DEF RecordsIn
<1>6. \A p \in 1 .. Len(db.vis) : db'.vis[p] = db.vis[p]
  BY <1>2, <1>5 DEF Untouched
<1>7. QED
  BY <1>4, <1>6, SameFile

\* A statement syncs nothing, and a roll back to a savepoint writes pages that have a record.
LEMMA MovesCrash ==
    ASSUME WholeInv, WholeInv', setting' = setting, CrashNow, Base' = Base, Moves
    PROVE  CrashNow'
<1>1. SyncedFiles /\ OpenCrash /\ WriterCrash /\ GoneRight
  BY DEF CrashNow
<1>2. /\ jrnl'.safe = jrnl.safe /\ db'.safe = db.safe /\ gone' = gone /\ pc.at = "idle"
      /\ pc'.at \in {"idle", "syncRecords"} /\ pc'.task # "rollback"
  BY IdleFacts DEF Moves
<1>3. ASSUME pager'.eState \in Opened3, pager'.header # 0 PROVE ~jrnl'.vis[pager'.header].magic
  <2>1. pc'.at \notin {"syncCount", "mustRollBack"}
    BY <1>2
  <2>2. (WholeInv /\ pager.eState \in Opened3 /\ pager.header # 0 /\ pc.at \notin {"syncCount", "mustRollBack"}
        /\ pc.task # "rollback" => ~jrnl.vis[pager.header].magic)'
    BY HeaderUnwritten, PTL
  <2>3. QED
    BY <1>2, <1>3, <2>1, <2>2 DEF Opened3
<1>4. ASSUME db'.vis = db.vis PROVE GoneRight' /\ (Firm(db) => Firm(db)')
  <2>1. Firm(db) => Firm(db)'
    BY <1>2, <1>4 DEF Firm
  <2>2. pc'.at # "shrink" /\ SameSafe
    BY <1>2 DEF SameSafe
  <2>3. QED
    BY <1>1, <1>2, <1>4, <2>1, <2>2, GoneKept
<1>5. CASE pager.eState \in {"READER", "LOCKED"}
  <2>1. db'.vis = db.vis /\ (pager'.eState = "CACHEMOD" \/ (pager'.eState = "LOCKED" /\ jrnl'.vis = jrnl.vis))
    BY <1>5 DEF Moves
  <2>2. jrnl.safe = jrnl.vis /\ ~MagicAt(jrnl.vis, 1)
    BY <1>1, <1>5 DEF SyncedFiles, WholeInv, ReaderRight, LockedRight, Begun
  <2>3. Firm(db)
    BY <1>1, <1>2, <1>5 DEF SyncedFiles
  <2>4. pager'.eState = "LOCKED" => pager'.header = 0
    BY DEF WholeInv, LockedRight, Begun
  <2>5. SyncedFiles'
    BY <1>2, <1>4, <2>1, <2>2, <2>3 DEF SyncedFiles
  <2>6. OpenCrash' /\ WriterCrash'
    BY <1>2, <1>3, <2>1, <2>2, <2>4 DEF OpenCrash, WriterCrash, Opened3
  <2>7. QED
    BY <1>4, <2>1, <2>5, <2>6 DEF CrashNow
<1>6. CASE pager.eState \in {"CACHEMOD", "DBMOD"}
  <2>1. /\ pager'.eState = pager.eState /\ pager'.dbOrigSize = pager.dbOrigSize /\ pager'.journalHdr = pager.journalHdr
        /\ Untouched(jrnl.vis, pager.journalHdr, pager.dbOrigSize, db.vis, db'.vis)
    BY <1>6 DEF Moves
  <2>2. CASE pager.eState = "CACHEMOD"
    <3>1. db'.vis = db.vis
      BY <2>1, <2>2, FirstUnchanged
    <3>2. Firm(db) /\ ~MagicAt(jrnl.safe, 1)
      BY <1>1, <1>2, <2>2 DEF SyncedFiles, WriterCrash
    <3>3. SyncedFiles'
      BY <1>2, <1>4, <2>1, <2>2, <3>1, <3>2 DEF SyncedFiles
    <3>4. OpenCrash' /\ WriterCrash'
      BY <1>2, <1>3, <2>1, <2>2, <3>2 DEF OpenCrash, WriterCrash, Opened3
    <3>5. QED
      BY <1>4, <3>1, <3>3, <3>4 DEF CrashNow
  <2>3. CASE pager.eState = "DBMOD"
    <3>1. /\ gone = NoFile /\ pager.dbOrigSize <= Len(db.safe)
          /\ Untouched(jrnl.vis, pager.journalHdr, pager.dbOrigSize, db.vis, db.safe)
      BY <1>1, <2>3 DEF WriterCrash
    <3>2. pager.eState \in Opened3 /\ pager'.eState \in Opened3
      BY <2>1, <2>3 DEF Opened3
    <3>3. pager.journalHdr \in Nat /\ \A i \in 1 .. pager.journalHdr : jrnl'.vis[i] = jrnl.vis[i]
      BY <1>2, <2>1, <3>2, SameHead, Bounds DEF PagerType
    <3>4. Untouched(jrnl'.vis, pager.journalHdr, pager.dbOrigSize, db'.vis, db.safe)
      BY <2>1, <3>1, <3>3, UntouchedOn
    <3>5. SyncedFiles' /\ OpenCrash'
      BY <1>2, <2>1, <2>3 DEF SyncedFiles, OpenCrash
    <3>6. gone' = NoFile
      BY <1>2, <3>1
    <3>7. WriterCrash'
      BY <1>2, <1>3, <2>1, <2>3, <3>1, <3>2, <3>4, <3>6 DEF WriterCrash, NoFile
    <3>8. QED
      BY <3>5, <3>6, <3>7, NothingGone DEF CrashNow
  <2>4. QED
    BY <1>6, <2>2, <2>3
<1>7. QED
  BY <1>5, <1>6 DEF Moves

\* The first sync of syncJournal.
LEMMA SyncRecordsCrash ==
    ASSUME WholeInv, WholeInv', BaseRight, Calm', CrashNow, SyncRecords
    PROVE  CrashNow'
<1>1. pc.at = "syncRecords" /\ db' = db /\ setting' = setting
  BY DEF SyncRecords
<1>2. /\ jrnl' = [vis |-> NoStaleHeader(jrnl.vis), safe |-> IF FullSync THEN NoStaleHeader(jrnl.vis) ELSE jrnl.safe]
      /\ gone' = IF FullSync THEN NoFile ELSE gone
      /\ Goto("writeCount") /\ pager' = pager /\ faults' = faults
  BY CalmSteps DEF SyncRecords
<1>3. FullSync /\ OwnRecords /\ OwnRecords'
  BY <1>1, <1>2, CalmSteps DEF FullSync
<1>4. jrnl'.safe = jrnl'.vis /\ gone' = NoFile
  BY <1>2, <1>3
<1>5. pc'.at = "writeCount" /\ pc'.task = pc.task
  BY <1>2 DEF Goto, WholeInv, Basics
<1>6. /\ pc.task \in {"spill", "commit"} /\ pager.eState \in {"CACHEMOD", "DBMOD"}
      /\ pager.header = pager.journalHdr + 1 /\ pager.header # 0 /\ pager.journalHdr \in Nat /\ Layout(pager, jrnl.vis)
  BY <1>1, SyncingFacts
<1>7. \A i \in 1 .. pager.journalHdr : jrnl'.vis[i] = jrnl.vis[i]
  BY <1>3, SyncRecordsBase
<1>8. ~jrnl'.vis[pager.header].magic
  <2>1. (WholeInv /\ pager.eState \in Opened3 /\ pager.header # 0 /\ pc.at \notin {"syncCount", "mustRollBack"}
        /\ pc.task # "rollback" => ~jrnl.vis[pager.header].magic)'
    BY HeaderUnwritten, PTL
  <2>2. pager'.eState \in Opened3 /\ pager'.header # 0 /\ pc'.at \notin {"syncCount", "mustRollBack"} /\ pc'.task # "rollback"
    BY <1>2, <1>5, <1>6 DEF Opened3
  <2>3. QED
    BY <1>2, <2>1, <2>2
<1>9. SyncedFiles /\ WriterCrash
  BY DEF CrashNow
<1>10. SyncedFiles'
  BY <1>1, <1>2, <1>5, <1>6, <1>9 DEF SyncedFiles, Firm
<1>11. OpenCrash'
  BY <1>2, <1>6 DEF OpenCrash
<1>12. pager.eState = "CACHEMOD" => ~MagicAt(jrnl'.safe, 1)
  BY <1>4, <1>6, <1>8 DEF Layout, MagicAt
<1>13. pager.eState = "DBMOD" => /\ pager.dbOrigSize <= Len(db.safe)
                                 /\ Untouched(jrnl'.vis, pager.journalHdr, pager.dbOrigSize, db.vis, db.safe)
  BY <1>6, <1>7, <1>9, SamePages, UntouchedOn DEF WriterCrash
<1>14. WriterCrash'
  BY <1>1, <1>2, <1>4, <1>5, <1>6, <1>8, <1>12, <1>13 DEF WriterCrash, NoFile
<1>15. QED
  BY <1>4, <1>10, <1>11, <1>14, NothingGone DEF CrashNow

\* The write of the record count: only the header in progress is not synced.
LEMMA WriteCountCrash ==
    ASSUME WholeInv, WholeInv', Calm', CrashNow, WriteCount
    PROVE  CrashNow'
<1> DEFINE i == pager.journalHdr + 1
           x == Header(TRUE, pager.nRec, pager.nonce, pager.dbOrigSize)
<1>1. pc.at = "writeCount" /\ db' = db /\ gone' = gone /\ setting' = setting
  BY DEF WriteCount
<1>2. jrnl' = Seen(jrnl, Put(jrnl.vis, i, x)) /\ Goto("syncCount") /\ pager' = pager
  BY CalmSteps DEF WriteCount
<1>3. pc'.at = "syncCount" /\ jrnl'.safe = jrnl.safe /\ jrnl'.vis = Put(jrnl.vis, i, x)
  BY <1>2 DEF Goto, Seen, WholeInv, Basics
<1>4. /\ pager.eState \in {"CACHEMOD", "DBMOD"} /\ pager.header = i /\ pager.journalHdr \in Nat
      /\ pager.nRec \in Nat /\ LastOf(pager) = pager.journalHdr + 1 + pager.nRec /\ LastOf(pager) <= Len(jrnl.vis)
  BY <1>1, SyncingFacts
<1>5. Numbered(jrnl.vis) /\ Len(jrnl.vis) \in Nat
  BY DEF WholeInv, Basics, JournalFile, Numbered
<1>6. SyncedFiles /\ WriterCrash
  BY DEF CrashNow
<1>7. gone = NoFile /\ jrnl.safe = jrnl.vis
  BY <1>1, <1>6 DEF WriterCrash
<1>8. Len(jrnl'.vis) = Len(jrnl.vis) /\ \A k \in 1 .. Len(jrnl.vis) : k # i => jrnl'.vis[k] = jrnl.vis[k]
  <2>1. i \in Nat /\ i > 0 /\ i <= Len(jrnl.vis)
    BY <1>4, <1>5
  <2> HIDE DEF i, x
  <2>2. QED
    BY <1>3, <1>5, <2>1, PutBlock
<1>9. \A k \in 1 .. pager.journalHdr : jrnl'.vis[k] = jrnl.vis[k]
  <2>1. \A k \in 1 .. pager.journalHdr : k \in 1 .. Len(jrnl.vis) /\ k # i
    BY <1>4, <1>5
  <2>2. QED
    BY <1>8, <2>1
<1>10. SyncedFiles'
  BY <1>1, <1>2, <1>3, <1>4, <1>6 DEF SyncedFiles, Firm
<1>11. OpenCrash'
  BY <1>2, <1>4 DEF OpenCrash
<1>12. pager.eState = "DBMOD" => /\ pager.dbOrigSize <= Len(db.safe)
                                 /\ Untouched(jrnl'.vis, pager.journalHdr, pager.dbOrigSize, db.vis, db.safe)
  BY <1>4, <1>6, <1>9, SamePages, UntouchedOn DEF WriterCrash
<1>13. pager.eState = "CACHEMOD" => ~MagicAt(jrnl'.safe, 1)
  BY <1>3, <1>6 DEF WriterCrash
<1>14. WriterCrash'
  <2>1. Len(jrnl'.safe) = Len(jrnl'.vis) /\ \A k \in 1 .. Len(jrnl'.vis) : k # pager'.header => jrnl'.safe[k] = jrnl'.vis[k]
    BY <1>2, <1>3, <1>4, <1>7, <1>8
  <2>2. gone' = NoFile
    BY <1>1, <1>7
  <2> HIDE DEF i, x
  <2>3. QED
    BY <1>1, <1>2, <1>3, <1>4, <1>12, <1>13, <2>1, <2>2 DEF WriterCrash, NoFile
<1>15. QED
  BY <1>1, <1>7, <1>10, <1>11, <1>14, NothingGone DEF CrashNow

\* A segment that became whole gives more pages back.
LEMMA UntouchedMore ==
    ASSUME NEW h \in Nat, NEW last \in Nat, h <= last, NEW J, NEW orig, NEW f, NEW w, Untouched(J, h, orig, f, w)
    PROVE  Untouched(J, last, orig, f, w)
<1>1. \A b \in RecordsIn(J, 1, h) : b \in RecordsIn(J, 1, last)
  BY DEF RecordsIn
<1>2. QED
  BY <1>1 DEF Untouched

\* The sync of the record count.
LEMMA SyncCountCrash ==
    ASSUME WholeInv, WholeInv', Calm', CrashNow, SyncCount
    PROVE  CrashNow'
<1> DEFINE last == pager.journalOff
<1>1. pc.at = "syncCount" /\ db' = db /\ setting' = setting
  BY DEF SyncCount
<1>2. gone' = NoFile /\ pc'.at = "writePages" /\ pc'.task = pc.task
  <2>1. gone' = NoFile /\ Goto("writePages")
    BY CalmSteps DEF SyncCount
  <2>2. QED
    BY <2>1 DEF Goto, WholeInv, Basics
<1>3. pc.task \in {"spill", "commit"}
  BY <1>1, SyncingFacts
<1>4. /\ pager'.eState = "DBMOD" /\ pager'.dbOrigSize = pager.dbOrigSize /\ pager'.journalHdr = last
      /\ \A i \in 1 .. last : jrnl'.vis[i] = jrnl.vis[i]
  <2>1. ~Failed(pager)
    <3>1. Failed(pager) => pc'.at # "writePages"
      BY IdleFacts DEF Failed, At
    <3>2. QED
      BY <1>2, <3>1
  <2>2. QED
    BY <2>1, SyncCountDoes
<1>5. /\ pager.eState \in {"CACHEMOD", "DBMOD"} /\ pager.journalHdr \in Nat /\ last \in Nat /\ pager.journalHdr <= last
      /\ CacheRight(pager, jrnl.vis, db.vis)
  <2>1. /\ pager.eState \in {"CACHEMOD", "DBMOD"} /\ CacheRight(pager, jrnl.vis, db.vis) /\ pager.journalHdr \in Nat
        /\ last = LastOf(pager) /\ LastOf(pager) = pager.journalHdr + 1 + pager.nRec /\ pager.nRec \in Nat
    BY <1>1, SyncingFacts
  <2>2. QED
    BY <2>1
<1>6. SyncedFiles /\ WriterCrash
  BY DEF CrashNow
<1>7. Len(db.vis) \in Nat /\ Len(db.safe) \in Nat /\ pager.dbOrigSize \in Nat
  <2>1. DataFile(db.vis) /\ DataFile(db.safe) /\ PagerType(pager) /\ Sizes
    BY Bounds DEF WholeInv, Basics
  <2>2. QED
    BY <2>1 DEF DataFile, Numbered, PagerType, Sizes
<1>8. pager.dbOrigSize <= Len(db.safe) /\ Untouched(jrnl.vis, pager.journalHdr, pager.dbOrigSize, db.vis, db.safe)
  <2>1. CASE pager.eState = "CACHEMOD"
    <3>1. Firm(db) /\ Len(db.vis) = pager.dbOrigSize
      BY <1>1, <1>5, <1>6, <2>1 DEF SyncedFiles, CacheRight
    <3>2. Len(db.vis) <= Len(db.safe) /\ \A p \in 1 .. Len(db.vis) : db.safe[p] = db.vis[p]
      BY <1>7, <3>1 DEF Firm, Cut
    <3>3. QED
      BY <3>1, <3>2 DEF Untouched
  <2>2. CASE pager.eState = "DBMOD"
    BY <1>6, <2>2 DEF WriterCrash
  <2>3. QED
    BY <1>5, <2>1, <2>2
<1>9. Untouched(jrnl'.vis, last, pager.dbOrigSize, db.vis, db.safe)
  <2>1. Untouched(jrnl.vis, last, pager.dbOrigSize, db.vis, db.safe)
    BY <1>5, <1>8, UntouchedMore
  <2>2. QED
    BY <1>4, <1>5, <2>1, SamePages, UntouchedOn
<1>10. pager'.header # 0 => ~jrnl'.vis[pager'.header].magic
  <2>1. (WholeInv /\ pager.eState \in Opened3 /\ pager.header # 0 /\ pc.at \notin {"syncCount", "mustRollBack"}
        /\ pc.task # "rollback" => ~jrnl.vis[pager.header].magic)'
    BY HeaderUnwritten, PTL
  <2>2. pager'.eState \in Opened3 /\ pc'.at \notin {"syncCount", "mustRollBack"} /\ pc'.task # "rollback"
    BY <1>2, <1>3, <1>4 DEF Opened3
  <2>3. QED
    BY <2>1, <2>2
<1> HIDE DEF last
<1>11. SyncedFiles' /\ OpenCrash'
  BY <1>2, <1>4 DEF SyncedFiles, OpenCrash
<1>12. WriterCrash'
  BY <1>1, <1>2, <1>4, <1>8, <1>9, <1>10 DEF WriterCrash, NoFile
<1>13. QED
  BY <1>2, <1>11, <1>12, NothingGone DEF CrashNow

\* pager_write_pagelist.
LEMMA WritePagesCrash ==
    ASSUME WholeInv, WholeInv', BaseRight, Calm', CrashNow, WritePages
    PROVE  CrashNow'
<1>1. pc.at = "writePages" /\ jrnl' = jrnl /\ gone' = gone /\ setting' = setting
  BY DEF WritePages
<1>2. /\ \E f : db' = Seen(db, f)
      /\ \E n, c : pager' = [pager EXCEPT !.dbFileSize = n, !.cache = c]
      /\ IF pc.task = "spill" THEN pc' = Idle ELSE Goto("syncDb")
      /\ faults' = faults
  BY CalmSteps DEF WritePages
<1>3. pager.eState = "DBMOD" /\ PagerType(pager)
  <2>1. pager.eState = "DBMOD"
    BY <1>1 DEF WholeInv, Flow, Idle
  <2>2. QED
    BY <2>1 DEF WholeInv, Basics
<1>4. /\ pager'.eState = "DBMOD" /\ pager'.dbOrigSize = pager.dbOrigSize /\ pager'.journalHdr = pager.journalHdr
      /\ pager'.header = pager.header /\ db'.safe = db.safe /\ pc'.at \in {"idle", "syncDb"}
  <2>1. pc'.at \in {"idle", "syncDb"}
    BY <1>2, IdleFacts DEF Goto, WholeInv, Basics
  <2>2. QED
    BY <1>2, <1>3, <2>1 DEF PagerType, Fields, Seen
<1>5. SyncedFiles /\ WriterCrash
  BY DEF CrashNow
<1>6. OwnRecords /\ OwnRecords'
  BY <1>1, <1>2, CalmSteps
<1>7. Untouched(jrnl.vis, pager.journalHdr, pager.dbOrigSize, db.vis, db'.vis)
  BY <1>6, WritePagesBase
<1>8. /\ gone = NoFile /\ pager.dbOrigSize <= Len(db.safe)
      /\ Untouched(jrnl.vis, pager.journalHdr, pager.dbOrigSize, db.vis, db.safe)
  BY <1>3, <1>5 DEF WriterCrash
<1>9. pager.journalHdr \in Nat
  BY <1>3 DEF PagerType
<1>10. Untouched(jrnl.vis, pager.journalHdr, pager.dbOrigSize, db'.vis, db.safe)
  BY <1>7, <1>8, <1>9, UntouchedOn
<1>11. pager.header # 0 => ~jrnl.vis[pager.header].magic
  BY <1>1, <1>5 DEF WriterCrash
<1>12. SyncedFiles' /\ OpenCrash'
  BY <1>4 DEF SyncedFiles, OpenCrash
<1>13. WriterCrash'
  BY <1>1, <1>4, <1>8, <1>10, <1>11 DEF WriterCrash, NoFile
<1>14. QED
  BY <1>1, <1>8, <1>12, <1>13, NothingGone DEF CrashNow

\* The sync of the database file: all that is written is safe.
LEMMA SyncDbCrash ==
    ASSUME WholeInv, WholeInv', Calm', CrashNow, SyncDb
    PROVE  CrashNow'
<1>1. pc.at = "syncDb" /\ jrnl' = jrnl /\ gone' = gone /\ setting' = setting
  BY DEF SyncDb
<1>2. /\ db' = Synced(db) /\ Goto("finalize")
      /\ pager' = IF pc.task = "commit" THEN [pager EXCEPT !.eState = "FINISHED"] ELSE pager
  BY CalmSteps DEF SyncDb
<1>3. db'.vis = db.vis /\ db'.safe = db.vis /\ pc'.at = "finalize"
  BY <1>2 DEF Synced, Goto, WholeInv, Basics
<1>4. SyncedFiles /\ OpenCrash /\ WriterCrash
  BY DEF CrashNow
<1>5. \/ pc.task = "commit" /\ pager.eState = "DBMOD"
      \/ pc.task # "commit" /\ pager.eState \in {"OPEN", "DBMOD"}
  BY <1>1 DEF WholeInv, Flow, Idle
<1>6. PagerType(pager) /\ DataFile(db.safe) /\ JournalFile(jrnl.vis, ver) /\ Sizes
  BY Bounds DEF WholeInv, Basics
<1>7. CASE pager.eState = "OPEN"
  <2>1. Hot(db.safe, jrnl.vis) /\ db.vis = RolledBack(db.safe, jrnl.vis) /\ jrnl.safe = jrnl.vis
    BY <1>1, <1>4, <1>7 DEF OpenCrash, SyncedFiles
  <2>2. MagicAt(jrnl.vis, 1)
    BY <1>6, <2>1 DEF Hot, MagicAt, JournalFile, Numbered
  <2>3. gone = NoFile
    BY <1>4, <1>7, <2>2 DEF OpenCrash
  <2>4. jrnl.vis[1].orig = Len(db.vis) /\ Len(db.vis) \in Nat
    <3> DEFINE c == Changes(jrnl.vis, Blocks(jrnl.vis, 1, Len(jrnl.vis), 0, TRUE), jrnl.vis[1].orig)
    <3>1. c = Changes(jrnl.vis, Blocks(jrnl.vis, 1, Len(jrnl.vis), 0, TRUE), jrnl.vis[1].orig)
      OBVIOUS
    <3> HIDE DEF c
    <3>2. HotEffect(jrnl.vis, c, Sized(db.safe, jrnl.vis[1].orig), Pages(c), RolledBack(db.safe, jrnl.vis))
      BY <1>6, <2>1, <3>1, HotPages
    <3>3. QED
      BY <2>1, <3>2 DEF HotEffect
  <2>5. pager'.eState = "OPEN" /\ pager' = pager /\ pager'.header = 0
    BY <1>2, <1>5, <1>7 DEF WholeInv, OpenRight
  <2>6. SyncedFiles'
    BY <1>1, <1>3, <2>1, <2>5 DEF SyncedFiles, Firm
  <2>7. OpenCrash'
    BY <1>1, <1>3, <2>3, <2>4, <2>5 DEF OpenCrash, NoFile
  <2>8. WriterCrash'
    BY <1>3, <2>5 DEF WriterCrash
  <2>9. QED
    BY <1>1, <2>3, <2>6, <2>7, <2>8, NothingGone DEF CrashNow
<1>8. CASE pager.eState = "DBMOD"
  <2>1. /\ gone = NoFile /\ (pager.header # 0 => ~jrnl.vis[pager.header].magic)
    BY <1>1, <1>4, <1>8 DEF WriterCrash
  <2>2. pager.dbOrigSize <= Len(db.vis)
    BY <1>8 DEF WholeInv, WriterRight, Opened3, CacheRight
  <2>3. /\ pager'.eState \in {"DBMOD", "FINISHED"} /\ pager'.header = pager.header
        /\ pager'.dbOrigSize = pager.dbOrigSize /\ pager'.journalHdr = pager.journalHdr
    BY <1>2, <1>6, <1>8 DEF PagerType, Fields
  <2>4. SyncedFiles' /\ OpenCrash'
    BY <1>3, <2>3 DEF SyncedFiles, OpenCrash
  <2>5. Untouched(jrnl.vis, pager.journalHdr, pager.dbOrigSize, db.vis, db.vis)
    BY SamePages
  <2>6. WriterCrash'
    BY <1>1, <1>3, <2>1, <2>2, <2>3, <2>5 DEF WriterCrash, NoFile
  <2>7. QED
    BY <1>1, <2>1, <2>4, <2>6, NothingGone DEF CrashNow
<1>9. QED
  BY <1>5, <1>7, <1>8

\* pager_playback: the file gets pages of whole segments, or what the hot journal makes of it.
LEMMA PlaybackCrash ==
    ASSUME WholeInv, WholeInv', BaseRight, Calm', CrashNow, Base' = Base, Playback
    PROVE  CrashNow'
<1>1. pc.at = "playback" /\ jrnl' = jrnl /\ gone' = gone /\ setting' = setting
  BY DEF Playback
<1>2. /\ \E f : db' = Seen(db, f)
      /\ \E n, c, m : pager' = [pager EXCEPT !.dbSize = n, !.cache = c, !.dbFileSize = m]
      /\ Goto(IF pager.eState # "CACHEMOD" THEN "syncDb" ELSE "finalize")
      /\ faults' = faults
  <2> DEFINE J == jrnl.vis
             hot == pc.task = "recover"
             orig == J[1].orig
             blocks == Blocks(J, 1, Len(J), InProgress(pager), hot)
             all == Changes(J, blocks, orig)
             inFile == pager.eState # "CACHEMOD"
             file(c) == IF inFile THEN Stored(Sized(db.vis, orig), Latest(c, {k \in DOMAIN c : k <= pager.journalHdr}))
                        ELSE db.vis
             cache(c) == IF hot /\ blocks # {} THEN <<>> ELSE Restored(pager.cache, Pages(c), {})
             size(c) == IF inFile THEN Len(file(c)) ELSE pager.dbFileSize
             played(c) == [pager EXCEPT !.dbSize = orig, !.cache = cache(c), !.dbFileSize = size(c)]
  <2>1. \/ /\ db' = Seen(db, file(all)) /\ pager' = played(all)
           /\ Goto(IF inFile THEN "syncDb" ELSE "finalize") /\ faults' = faults
        \/ MayFail
    BY DEF Playback
  <2>2. ~MayFail
    BY CalmSteps
  <2> HIDE DEF all, file, cache, size
  <2>3. pager' = played(all)
    BY <2>1, <2>2
  <2>4. \E n, c, m : pager' = [pager EXCEPT !.dbSize = n, !.cache = c, !.dbFileSize = m]
    BY <2>3
  <2>5. QED
    BY <2>1, <2>2, <2>4
<1>3. PagerType(pager) /\ DOMAIN pc = {"at", "task", "page"}
  BY DEF WholeInv, Basics
<1>4. /\ pager'.eState = pager.eState /\ pager'.dbOrigSize = pager.dbOrigSize /\ pager'.journalHdr = pager.journalHdr
      /\ pager'.header = pager.header /\ db'.safe = db.safe
      /\ pc'.at = IF pager.eState # "CACHEMOD" THEN "syncDb" ELSE "finalize"
  BY <1>2, <1>3 DEF PagerType, Fields, Seen, Goto
<1>5. SyncedFiles /\ OpenCrash /\ WriterCrash /\ GoneRight
  BY DEF CrashNow
<1>6. OwnRecords /\ OwnRecords'
  BY <1>1, <1>2, CalmSteps
<1>7. pager.header # 0 => ~jrnl.vis[pager.header].magic
  BY <1>1, <1>5 DEF WriterCrash
<1>8. CASE pager.eState = "CACHEMOD"
  <2>1. db'.vis = db.vis
    <3>1. \E c : db'.vis = PlayedFile(c)
      BY PlaybackDoes
    <3>2. QED
      BY <1>8, <3>1 DEF PlayedFile
  <2>2. Firm(db) /\ ~MagicAt(jrnl.safe, 1)
    BY <1>1, <1>5, <1>8 DEF SyncedFiles, WriterCrash
  <2>3. Firm(db)'
    BY <1>4, <2>1, <2>2 DEF Firm
  <2>4. SyncedFiles' /\ OpenCrash'
    BY <1>4, <1>8, <2>3 DEF SyncedFiles, OpenCrash
  <2>5. WriterCrash'
    BY <1>1, <1>4, <1>7, <1>8, <2>2 DEF WriterCrash
  <2>6. GoneRight'
    <3>1. pc'.at # "shrink" /\ SameSafe
      BY <1>1, <1>4, <1>8 DEF SameSafe
    <3>2. QED
      BY <1>1, <1>5, <2>1, <3>1, GoneKept
  <2>7. QED
    BY <2>4, <2>5, <2>6 DEF CrashNow
<1>9. CASE pager.eState = "DBMOD"
  <2>1. Untouched(jrnl.vis, pager.journalHdr, pager.dbOrigSize, db.vis, db'.vis)
    BY <1>6, <1>9, PlaybackFileBase
  <2>2. /\ gone = NoFile /\ pager.dbOrigSize <= Len(db.safe)
        /\ Untouched(jrnl.vis, pager.journalHdr, pager.dbOrigSize, db.vis, db.safe)
    BY <1>5, <1>9 DEF WriterCrash
  <2>3. pager.journalHdr \in Nat
    BY <1>3 DEF PagerType
  <2>4. Untouched(jrnl.vis, pager.journalHdr, pager.dbOrigSize, db'.vis, db.safe)
    BY <2>1, <2>2, <2>3, UntouchedOn
  <2>5. SyncedFiles' /\ OpenCrash'
    BY <1>4, <1>9 DEF SyncedFiles, OpenCrash
  <2>6. WriterCrash'
    BY <1>1, <1>4, <1>7, <1>9, <2>2, <2>4 DEF WriterCrash, NoFile
  <2>7. QED
    BY <1>1, <2>2, <2>5, <2>6, NothingGone DEF CrashNow
<1>10. CASE pager.eState = "OPEN"
  <2>1. db'.vis = RolledBack(db.vis, jrnl.vis)
    BY <1>4, <1>6, <1>10, PlaybackHotBase
  <2>2. Hot(db.vis, jrnl.vis)
    <3>1. pc.task = "recover"
      BY <1>1, <1>10 DEF WholeInv, Flow, Idle
    <3>2. QED
      BY <1>1, <1>6, <3>1 DEF BaseRight
  <2>3. MagicAt(jrnl.vis, 1)
    BY <1>1, <1>10 DEF WholeInv, OpenRight
  <2>4. gone = NoFile /\ jrnl.vis[1].orig <= Len(db.safe) /\ db.safe = db.vis
    BY <1>1, <1>5, <1>10, <2>3 DEF OpenCrash
  <2>5. jrnl.safe = jrnl.vis
    BY <1>5, <1>10 DEF SyncedFiles
  <2>6. SyncedFiles'
    BY <1>1, <1>4, <1>10, <2>5 DEF SyncedFiles
  <2>7. OpenCrash'
    BY <1>1, <1>4, <1>10, <2>1, <2>2, <2>4 DEF OpenCrash, NoFile
  <2>8. WriterCrash'
    BY <1>1, <1>4, <1>7, <1>10 DEF WriterCrash
  <2>9. QED
    BY <1>1, <2>4, <2>6, <2>7, <2>8, NothingGone DEF CrashNow
<1>11. QED
  BY <1>8, <1>9, <1>10, PlaybackDoes

\* sqlite3PagerSharedLock.
LEMMA SharedLockCrash ==
    ASSUME WholeInv, WholeInv', CrashNow, Base' = Base, SharedLock
    PROVE  CrashNow'
<1>1. pc = Idle /\ pager.eState = "OPEN" /\ db' = db /\ pc.at = "idle"
  BY DEF SharedLock, Idle
<1>2. SyncedFiles /\ OpenCrash /\ WriterCrash /\ GoneRight
  BY DEF CrashNow
<1>3. jrnl.safe = jrnl.vis /\ Firm(db)
  BY <1>1, <1>2 DEF SyncedFiles
<1>4. Firm(db)'
  BY <1>1, <1>3 DEF Firm
<1>5. PagerType(pager) /\ pager.header = 0
  BY <1>1 DEF WholeInv, Basics, OpenRight
<1>6. Numbered(jrnl.vis) /\ Len(jrnl.vis) \in Nat
  BY DEF WholeInv, Basics, JournalFile, Numbered
<1>7. MagicAt(jrnl.vis, 1) => gone = NoFile /\ jrnl.vis[1].orig <= Len(db.vis) /\ db.safe = db.vis
  BY <1>1, <1>2 DEF OpenCrash
<1>8. CASE Hot(db.vis, jrnl.vis)
  <2>1. /\ pager' = [pager EXCEPT !.jfd = TRUE, !.journalHdr = Len(jrnl.vis)]
        /\ pc' = At("playback", "recover") /\ jrnl' = Synced(jrnl) /\ gone' = gone
    BY <1>8 DEF SharedLock
  <2>2. /\ pager'.eState = "OPEN" /\ pager'.header = 0 /\ pc'.at = "playback"
        /\ jrnl'.vis = jrnl.vis /\ jrnl'.safe = jrnl.vis
    BY <1>1, <1>5, <2>1 DEF PagerType, Fields, At, Synced
  <2>3. MagicAt(jrnl.vis, 1)
    BY <1>6, <1>8 DEF Hot, MagicAt
  <2>4. SyncedFiles'
    BY <1>4, <2>2 DEF SyncedFiles
  <2>5. OpenCrash'
    BY <1>1, <1>7, <2>1, <2>2, <2>3 DEF OpenCrash, NoFile
  <2>6. WriterCrash'
    BY <2>2 DEF WriterCrash
  <2>7. QED
    BY <1>7, <2>1, <2>3, <2>4, <2>5, <2>6, NothingGone DEF CrashNow
<1>9. CASE ~Hot(db.vis, jrnl.vis)
  <2>1. /\ pager' = [pager EXCEPT !.eState = "READER", !.dbSize = Len(db.vis)] /\ pc' = pc
        /\ IF Len(db.vis) = 0 /\ jrnl.vis # <<>> THEN gone' = jrnl /\ jrnl' = NoFile ELSE jrnl' = jrnl /\ gone' = gone
    BY <1>9 DEF SharedLock
  <2>2. pager'.eState = "READER" /\ pager'.header = 0 /\ pc'.at = "idle"
    BY <1>1, <1>5, <2>1 DEF PagerType, Fields
  <2>3. jrnl'.safe = jrnl'.vis
    BY <1>3, <2>1 DEF NoFile
  <2>4. SyncedFiles' /\ OpenCrash' /\ WriterCrash'
    BY <1>4, <2>2, <2>3 DEF SyncedFiles, OpenCrash, WriterCrash
  <2>5. CASE jrnl' = jrnl /\ gone' = gone
    <3>1. GoneRight'
      BY <1>1, <1>2, <2>2, <2>5, GoneKept DEF SameSafe
    <3>2. QED
      BY <2>4, <3>1 DEF CrashNow
  <2>6. CASE Len(db.vis) = 0 /\ gone' = jrnl
    <3>1. ASSUME NEW J \in Survivors(jrnl, Junk)
          PROVE  ImageNow(db.vis, J) = Base /\ (MagicAt(J, 1) => J[1].orig <= Len(db.vis))
      <4>1. J = jrnl.vis
        BY <1>3, <1>6, <3>1, SyncedSurvives
      <4>2. QED
        BY <1>7, <4>1, BaseIs
    <3>2. \A J \in Survivors(gone', Junk) :
              /\ ImageNow(db'.vis, J) \in {Base', Prev'}
              /\ MagicAt(J, 1) => J[1].orig <= Len(db'.vis) /\ (pc'.at = "shrink" => J[1].orig <= pager'.dbSize)
      BY <1>1, <2>2, <2>6, <3>1
    <3>3. GoneRight'
      BY <3>2 DEF GoneRight
    <3>4. QED
      BY <2>4, <3>3 DEF CrashNow
  <2>7. QED
    BY <2>1, <2>5, <2>6
<1>10. QED
  BY <1>8, <1>9

\* The size in the header of a journal is a number.
LEMMA OrigTyped ==
    ASSUME Sizes, NEW J, NEW v, JournalFile(J, v)
    PROVE  Len(J) \in Nat /\ (MagicAt(J, 1) => J[1].orig \in Nat)
<1>1. Len(J) \in Nat
  BY DEF JournalFile, Numbered
<1>2. ASSUME MagicAt(J, 1) PROVE J[1].orig \in Nat
  <2>1. 1 \in 1 .. Len(J) /\ J[1].kind = "hdr"
    BY <1>1, <1>2 DEF MagicAt
  <2>2. IsBlock(J[1], v)
    BY <2>1 DEF JournalFile
  <2>3. QED
    BY <2>1, <2>2 DEF IsBlock, Sizes
<1>3. QED
  BY <1>1, <1>2

\* The truncation after a commit cuts off pages that no journal gives back either.
LEMMA ShrinkCrash ==
    ASSUME WholeInv, WholeInv', BaseRight, Calm', CrashNow, Base' = Base, Shrink
    PROVE  CrashNow'
<1> DEFINE n == pager.dbSize
           f == db.vis
           s == db'.vis
<1>1. pc.at = "shrink" /\ jrnl' = jrnl /\ gone' = gone /\ setting' = setting
  BY DEF Shrink
<1>2. db' = Seen(db, Sized(f, n)) /\ pc' = Idle /\ pager' = pager /\ faults' = faults
  BY CalmSteps DEF Shrink
<1>3. s = Sized(f, n) /\ db'.safe = db.safe /\ pc'.at = "idle"
  BY <1>2 DEF Seen, Idle
<1>4. pc.task = "end" /\ pager.eState = "READER"
  BY <1>1 DEF WholeInv, Flow, Idle
<1>5. ~MagicAt(jrnl.vis, 1) /\ n <= Len(f) /\ n > 0 /\ f[1].n <= n
  <2>1. OwnRecords
    BY <1>1, <1>2, CalmSteps
  <2>2. QED
    BY <1>4, <2>1 DEF WholeInv, ReaderRight, BaseRight
<1>6. Numbered(f) /\ n \in Nat /\ Len(f) \in Nat /\ DataFile(f) /\ Sizes
      /\ JournalFile(gone.vis, ver) /\ JournalFile(gone.safe, ver) /\ JournalFile(jrnl.safe, ver)
  <2>1. PagerType(pager) /\ Sizes /\ Len(f) \in Nat
    BY Bounds
  <2>2. DataFile(f) /\ JournalFile(gone.vis, ver) /\ JournalFile(gone.safe, ver) /\ JournalFile(jrnl.safe, ver)
    BY DEF WholeInv, Basics
  <2>3. QED
    BY <2>1, <2>2 DEF DataFile, PagerType, Sizes
<1>7. SyncedFiles /\ GoneRight
  BY DEF CrashNow
<1>8. db.safe = f /\ jrnl.safe = jrnl.vis
  BY <1>1, <1>4, <1>7 DEF SyncedFiles
<1>9. Len(s) = n /\ \A p \in 1 .. n : f[p] = s[p]
  <2>1. Len(Sized(f, n)) = n /\ \A p \in 1 .. n : Sized(f, n)[p] = IF p <= Len(f) THEN f[p] ELSE Zero
    BY <1>6, SizedFacts
  <2> HIDE DEF n, f, s
  <2>2. QED
    BY <1>3, <1>5, <1>6, <2>1
<1>10. Cut(s, f)
  <2>1. 1 \in 1 .. n
    BY <1>5, <1>6
  <2>2. s[1] = f[1]
    BY <1>9, <2>1
  <2>3. QED
    BY <1>5, <1>9, <2>2 DEF Cut
<1>11. DataFile(s)
  <2>1. (DataFile(db.vis))'
    BY DEF WholeInv, Basics
  <2>2. QED
    BY <1>1, <2>1, CarriedTypes
<1>12. SyncedFiles'
  BY <1>1, <1>2, <1>3, <1>4, <1>8, <1>10 DEF SyncedFiles, Firm
<1>13. OpenCrash' /\ WriterCrash'
  <2>1. pager.header = 0
    BY <1>4 DEF WholeInv, ReaderRight
  <2>2. QED
    BY <1>2, <1>3, <1>4, <2>1 DEF OpenCrash, WriterCrash
<1> HIDE DEF n, f, s
<1>14. ASSUME NEW J, JournalFile(J, ver), MagicAt(J, 1) => J[1].orig <= n
       PROVE  ImageNow(s, J) = ImageNow(f, J)
  <2>1. Len(J) \in Nat /\ (MagicAt(J, 1) => J[1].orig \in Nat)
    BY <1>6, <1>14, OrigTyped
  <2>2. ImageNow(f, J) = ImageNow(s, J)
    BY <1>6, <1>9, <1>10, <1>11, <1>14, <2>1, FirmReads
  <2>3. QED
    BY <2>2
<1>15. ASSUME gone # NoFile PROVE Prev' = Prev
  <2>1. gone.safe \in Survivors(gone, Junk)
    <3>1. Numbered(gone.safe) /\ Numbered(gone.vis)
      BY <1>6 DEF JournalFile
    <3>2. QED
      BY <3>1, SafeSurvives
  <2>2. MagicAt(gone.safe, 1) => gone.safe[1].orig <= n
    BY <1>1, <1>7, <1>15, <2>1 DEF GoneRight, n
  <2>3. ImageNow(s, gone.safe) = ImageNow(f, gone.safe)
    BY <1>6, <1>14, <2>2
  <2>4. ImageNow(s, jrnl.safe) = ImageNow(f, jrnl.safe)
    BY <1>5, <1>6, <1>8, <1>14
  <2>5. Hot(s, gone.safe) <=> Hot(f, gone.safe)
    BY <1>5, <1>6, <1>9 DEF Hot
  <2>6. Prev = ImageNow(f, IF Hot(f, gone.safe) THEN gone.safe ELSE jrnl.safe)
    BY PrevIs DEF f
  <2>7. Prev' = ImageNow(s, IF Hot(s, gone.safe) THEN gone.safe ELSE jrnl.safe)
    BY <1>1, PrevNext DEF s
  <2>8. QED
    BY <2>3, <2>4, <2>5, <2>6, <2>7
<1>16. GoneRight'
  <2>1. CASE gone = NoFile
    BY <1>1, <2>1, NothingGone
  <2>2. CASE gone # NoFile
    <3>1. ASSUME NEW J \in Survivors(gone, Junk)
          PROVE  ImageNow(s, J) \in {Base', Prev'} /\ (MagicAt(J, 1) => J[1].orig <= Len(s))
      <4>1. ImageNow(f, J) \in {Base, Prev} /\ (MagicAt(J, 1) => J[1].orig <= n)
        BY <1>1, <1>7, <2>2, <3>1 DEF GoneRight, n, f
      <4>2. JournalFile(J, ver)
        BY <1>6, <3>1, SurvivingJournal
      <4>3. ImageNow(s, J) = ImageNow(f, J)
        BY <1>14, <4>1, <4>2
      <4>4. QED
        BY <1>9, <1>15, <2>2, <4>1, <4>3
    <3>2. \A J \in Survivors(gone', Junk) :
              /\ ImageNow(db'.vis, J) \in {Base', Prev'}
              /\ MagicAt(J, 1) => J[1].orig <= Len(db'.vis) /\ (pc'.at = "shrink" => J[1].orig <= pager'.dbSize)
      BY <1>1, <1>3, <3>1 DEF s
    <3>3. QED
      BY <3>2 DEF GoneRight
  <2>3. QED
    BY <2>1, <2>2
<1>17. QED
  BY <1>12, <1>13, <1>16 DEF CrashNow

\* What removes the journal: it is unlinked, truncated or zeroed.
LEMMA FinalizeDoes ==
    ASSUME WholeInv, CrashNow, Calm', Finalize
    PROVE  /\ pc.at = "finalize" /\ db' = db /\ setting' = setting /\ faults' = faults
           /\ Removed /\ pager' = Ended(pager) /\ ~MagicAt(jrnl'.vis, 1) /\ jrnl'.safe = jrnl'.vis
           /\ \/ jrnl' = jrnl /\ gone' = gone /\ pager.eState = "LOCKED"
              \/ gone' = gone
              \/ gone' = jrnl
           /\ pc'.at = "idle" \/ (pc'.at = "shrink" /\ pc.task = "commit" /\ pager.dbFileSize > pager.dbSize)
<1>1. /\ pc.at = "finalize" /\ db' = db /\ setting' = setting /\ Removed /\ pager' = Ended(pager) /\ faults' = faults
      /\ pc' = IF pc.task = "commit" /\ pager.dbFileSize > pager.dbSize THEN At("shrink", "end") ELSE Idle
  BY CalmSteps DEF Finalize
<1>2. \/ pager.jfd = TRUE /\ (pager.journalOff # 0 \/ pc.task = "recover")
      \/ ~MagicAt(jrnl.vis, 1) /\ pager.eState = "LOCKED"
  <2>1. CASE pager.eState \in Opened3
    <3>1. Layout(pager, jrnl.vis) /\ PagerType(pager)
      BY <2>1, Bounds DEF WholeInv, WriterRight
    <3>2. QED
      BY <3>1 DEF Layout, PagerType
  <2>2. CASE pager.eState = "LOCKED"
    BY <2>2 DEF WholeInv, LockedRight, Begun
  <2>3. CASE pc.task = "recover" /\ pager.eState = "OPEN"
    BY <2>3 DEF WholeInv, OpenRight
  <2>4. \/ pager.eState \in Opened3 \cup {"LOCKED"}
        \/ pc.task = "recover" /\ pager.eState = "OPEN"
    BY <1>1 DEF WholeInv, Flow, Idle, Opened3
  <2>5. QED
    BY <2>1, <2>2, <2>3, <2>4
<1>3. ~MagicAt(jrnl'.vis, 1)
  BY <1>1, <1>2, RemovedFacts
<1>4. /\ jrnl'.safe = jrnl'.vis
      /\ \/ jrnl' = jrnl /\ gone' = gone /\ pager.eState = "LOCKED"
         \/ gone' = gone
         \/ gone' = jrnl
  <2>1. CASE ~pager.jfd \/ (JournalMode # "DELETE" /\ pager.journalOff = 0 /\ pc.task # "recover")
    <3>1. jrnl' = jrnl /\ gone' = gone
      BY <1>1, <2>1 DEF Removed
    <3>2. pager.eState = "LOCKED"
      BY <1>2, <2>1
    <3>3. QED
      BY <3>1, <3>2 DEF CrashNow, SyncedFiles
  <2>2. CASE ~(~pager.jfd \/ (JournalMode # "DELETE" /\ pager.journalOff = 0 /\ pc.task # "recover"))
    <3>1. \/ jrnl' = Synced(Seen(jrnl, Put(jrnl.vis, 1, ZeroHeader))) /\ gone' = gone
          \/ jrnl' = NoFile /\ gone' = gone
          \/ jrnl' = NoFile /\ gone' = jrnl
      BY <1>1, <2>2 DEF Removed
    <3>2. QED
      BY <3>1 DEF Synced, NoFile
  <2>3. QED
    BY <2>1, <2>2
<1>5. pc'.at = "idle" \/ (pc'.at = "shrink" /\ pc.task = "commit" /\ pager.dbFileSize > pager.dbSize)
  BY <1>1 DEF At, Idle
<1>6. QED
  BY <1>1, <1>3, <1>4, <1>5

\* A journal that is unlinked gives the image that was committed before the commit, or the one after it.
LEMMA UnlinkedRight ==
    ASSUME WholeInv, OwnRecords, BaseRight, CrashNow, pc.at = "finalize", NEW J \in Survivors(jrnl, Junk), MagicAt(J, 1)
    PROVE  /\ ImageNow(db.vis, J) = Base /\ J[1].orig <= Len(db.vis)
           /\ \/ Base = FileImage(db.vis) /\ pager.eState # "FINISHED"
              \/ pager.eState = "FINISHED" /\ J[1].orig <= pager.dbSize /\ MagicAt(jrnl.safe, 1)
                 /\ ImageNow(db.vis, jrnl.safe) = Base
<1>1. SyncedFiles /\ OpenCrash /\ WriterCrash
  BY DEF CrashNow
<1>2. \/ pager.eState = "LOCKED"
      \/ pager.eState = "CACHEMOD"
      \/ pager.eState = "DBMOD" /\ pc.task = "rollback"
      \/ pager.eState = "FINISHED" /\ pc.task = "commit"
      \/ pager.eState = "OPEN" /\ pc.task = "recover"
  BY DEF WholeInv, Flow, Idle
<1>3. Numbered(jrnl.vis) /\ Numbered(jrnl.safe)
  BY DEF WholeInv, Basics, JournalFile
<1>4. CASE pager.eState = "LOCKED"
  <2>1. J = jrnl.vis
    BY <1>1, <1>3, <1>4, SyncedSurvives DEF SyncedFiles
  <2>2. QED
    BY <1>4, <2>1 DEF WholeInv, LockedRight, Begun
<1>5. CASE pager.eState = "CACHEMOD"
  <2>1. J = jrnl.vis
    BY <1>1, <1>5, FirstJournal
  <2>2. Layout(pager, jrnl.vis)
    BY <1>5 DEF WholeInv, WriterRight, Opened3
  <2>3. pager.header = 1
    BY <1>5, <2>2 DEF Layout
  <2>4. ~jrnl.vis[1].magic
    BY <1>1, <2>3 DEF WriterCrash
  <2>5. QED
    BY <2>1, <2>4 DEF MagicAt
<1>6. CASE pager.eState = "DBMOD" /\ pc.task = "rollback"
  <2> DEFINE w == db.vis
  <2>1. w = db.vis
    OBVIOUS
  <2> HIDE DEF w
  <2>2. ImageNow(w, J) = Base /\ J[1].orig = pager.dbOrigSize /\ pager.dbOrigSize <= Len(w)
    BY <1>1, <1>6, <2>1, WriterSurvives
  <2>3. Base = FileImage(db.vis)
    BY <1>6 DEF BaseRight
  <2>4. QED
    BY <1>6, <2>1, <2>2, <2>3
<1>7. CASE pager.eState = "FINISHED" /\ pc.task = "commit"
  <2> DEFINE w == db.vis
  <2>1. w = db.vis
    OBVIOUS
  <2> HIDE DEF w
  <2>2. jrnl.safe \in Survivors(jrnl, Junk)
    BY <1>3, SafeSurvives
  <2>3. ImageNow(w, J) = Base /\ J[1].orig = pager.dbOrigSize /\ pager.dbOrigSize <= Len(w)
    BY <1>1, <1>7, <2>1, WriterSurvives
  <2>4. ImageNow(w, jrnl.safe) = Base /\ MagicAt(jrnl.safe, 1)
    BY <1>1, <1>7, <2>1, <2>2, WriterSurvives
  <2>5. pager.dbOrigSize <= pager.dbSize
    BY <1>7 DEF WholeInv, WriterRight, Opened3, CacheRight
  <2>6. QED
    BY <1>7, <2>1, <2>3, <2>4, <2>5
<1>8. CASE pager.eState = "OPEN" /\ pc.task = "recover"
  <2>1. J = jrnl.vis
    BY <1>1, <1>3, <1>8, SyncedSurvives DEF SyncedFiles
  <2>2. J[1].orig <= Len(db.vis)
    BY <1>1, <1>8, <2>1 DEF OpenCrash
  <2>3. Base = FileImage(db.vis)
    BY <1>8 DEF BaseRight
  <2>4. QED
    BY <1>8, <2>1, <2>2, <2>3, BaseIs
<1>9. QED
  BY <1>2, <1>4, <1>5, <1>6, <1>7, <1>8

\* The removal of the journal, until its directory is synced.
LEMMA FinalizeCrash ==
    ASSUME WholeInv, WholeInv', BaseRight, Calm', CrashNow, Finalize
    PROVE  CrashNow'
<1>1. /\ pc.at = "finalize" /\ db' = db /\ setting' = setting /\ faults' = faults
      /\ pager' = Ended(pager) /\ ~MagicAt(jrnl'.vis, 1) /\ jrnl'.safe = jrnl'.vis
      /\ \/ jrnl' = jrnl /\ gone' = gone /\ pager.eState = "LOCKED"
         \/ gone' = gone
         \/ gone' = jrnl
      /\ pc'.at = "idle" \/ (pc'.at = "shrink" /\ pc.task = "commit" /\ pager.dbFileSize > pager.dbSize)
  BY FinalizeDoes
<1>2. OwnRecords /\ OwnRecords'
  BY <1>1, CalmSteps
<1>3. SyncedFiles /\ OpenCrash /\ WriterCrash /\ GoneRight
  BY DEF CrashNow
<1>4. PagerType(pager) /\ Sizes /\ DataFile(db.vis) /\ Len(jrnl.safe) \in Nat /\ Len(jrnl'.vis) \in Nat
  <2>1. PagerType(pager) /\ Sizes /\ DataFile(db.vis) /\ Len(jrnl.safe) \in Nat
    BY Bounds DEF WholeInv, Basics, JournalFile, Numbered
  <2>2. (Len(jrnl.vis) \in Nat)'
    BY DEF WholeInv, Basics, JournalFile, Numbered
  <2>3. QED
    BY <2>1, <2>2
<1>5. pager'.eState = "READER" /\ pager'.header = 0 /\ (pc.task # "recover" => pager'.dbSize = pager.dbSize)
  BY <1>1, <1>4, EndedFacts
<1>6. \/ pager.eState = "LOCKED" /\ pager.dbFileSize = pager.dbSize
      \/ pager.eState = "CACHEMOD" /\ pc.task # "commit"
      \/ pager.eState \in {"DBMOD", "FINISHED", "OPEN"}
  <2>1. \/ pager.eState = "CACHEMOD" /\ pc.task # "commit"
        \/ pager.eState \in {"LOCKED", "DBMOD", "FINISHED", "OPEN"}
    BY <1>1 DEF WholeInv, Flow, Idle
  <2>2. pager.eState = "LOCKED" => pager.dbFileSize = pager.dbSize
    BY DEF WholeInv, LockedRight, Begun
  <2>3. QED
    BY <2>1, <2>2
<1>7. pager.eState \in {"DBMOD", "FINISHED", "OPEN"} => db.safe = db.vis
  BY <1>1, <1>3 DEF SyncedFiles
<1>8. Firm(db)
  BY <1>1, <1>3, <1>6, <1>7 DEF SyncedFiles, Firm
<1>9. pc'.at = "shrink" => db.safe = db.vis
  <2>1. pager.dbFileSize \in Nat /\ pager.dbSize \in Nat
    BY <1>4 DEF PagerType, Sizes
  <2>2. QED
    BY <1>1, <1>6, <1>7, <2>1
<1>10. SyncedFiles'
  <2>1. Firm(db)'
    BY <1>1, <1>8 DEF Firm
  <2>2. QED
    BY <1>1, <1>5, <1>9, <2>1 DEF SyncedFiles
<1>11. OpenCrash' /\ WriterCrash'
  BY <1>1, <1>5 DEF OpenCrash, WriterCrash
<1>12. Base' = FileImage(db.vis)
  BY <1>1, NotHotNext
<1>13. ASSUME gone' = gone PROVE GoneRight'
  <2>1. CASE gone = NoFile
    BY <1>13, <2>1, NothingGone
  <2>2. CASE gone # NoFile
    <3>1. \/ pager.eState = "LOCKED"
          \/ pager.eState = "CACHEMOD" /\ pc.task # "commit"
          \/ pager.eState = "OPEN" /\ pc.task = "recover" /\ ~MagicAt(jrnl.vis, 1)
      <4>1. pager.eState \notin {"DBMOD", "FINISHED"}
        BY <1>3, <2>2 DEF WriterCrash
      <4>2. pager.eState = "OPEN" => ~MagicAt(jrnl.vis, 1)
        BY <1>3, <2>2 DEF OpenCrash
      <4>3. pager.eState = "OPEN" => pc.task = "recover"
        BY <1>1 DEF WholeInv, Flow, Idle
      <4>4. QED
        BY <1>6, <4>1, <4>2, <4>3
    <3>2. Base = FileImage(db.vis) /\ ~MagicAt(jrnl.safe, 1)
      <4>1. CASE pager.eState = "LOCKED"
        <5>1. ~MagicAt(jrnl.vis, 1) /\ jrnl.safe = jrnl.vis
          BY <1>3, <4>1 DEF WholeInv, LockedRight, Begun, SyncedFiles
        <5>2. QED
          BY <5>1, NotHot
      <4>2. CASE pager.eState = "CACHEMOD"
        BY <1>2, <1>3, <4>2, FirstBase DEF WriterCrash
      <4>3. CASE pager.eState = "OPEN" /\ ~MagicAt(jrnl.vis, 1)
        <5>1. jrnl.safe = jrnl.vis
          BY <1>3, <4>3 DEF SyncedFiles
        <5>2. QED
          BY <4>3, <5>1, NotHot
      <4>4. QED
        BY <3>1, <4>1, <4>2, <4>3
    <3>3. SameSafe
      BY <1>1, <3>2 DEF SameSafe
    <3>4. pc'.at # "shrink"
      <4>1. pager.dbFileSize \in Nat /\ pager.dbSize \in Nat
        BY <1>4 DEF PagerType, Sizes
      <4>2. QED
        BY <1>1, <1>6, <3>1, <4>1
    <3>5. QED
      BY <1>1, <1>3, <1>12, <1>13, <3>2, <3>3, <3>4, GoneKept
  <2>3. QED
    BY <2>1, <2>2
<1>14. ASSUME gone' = jrnl PROVE GoneRight'
  <2>1. ASSUME NEW J \in Survivors(jrnl, Junk)
        PROVE  /\ ImageNow(db.vis, J) \in {Base', Prev'}
               /\ MagicAt(J, 1) => J[1].orig <= Len(db.vis) /\ (pc'.at = "shrink" => J[1].orig <= pager'.dbSize)
    <3>1. CASE ~MagicAt(J, 1)
      <4>1. JournalFile(J, ver)
        <5>1. JournalFile(jrnl.vis, ver) /\ JournalFile(jrnl.safe, ver)
          BY DEF WholeInv, Basics
        <5>2. QED
          BY <2>1, <5>1, SurvivingJournal
      <4>2. ~Hot(db.vis, J)
        BY <3>1, <4>1 DEF Hot, MagicAt, JournalFile, Numbered
      <4>3. QED
        BY <1>12, <3>1, <4>2 DEF ImageNow
    <3>2. CASE MagicAt(J, 1)
      <4>1. /\ ImageNow(db.vis, J) = Base /\ J[1].orig <= Len(db.vis)
            /\ \/ Base = FileImage(db.vis) /\ pager.eState # "FINISHED"
               \/ pager.eState = "FINISHED" /\ J[1].orig <= pager.dbSize /\ MagicAt(jrnl.safe, 1)
                  /\ ImageNow(db.vis, jrnl.safe) = Base
        BY <1>1, <1>2, <2>1, <3>2, UnlinkedRight
      <4>2. CASE Base = FileImage(db.vis) /\ pager.eState # "FINISHED"
        <5>1. pc'.at # "shrink"
          <6>1. pager.eState # "FINISHED" /\ pc.task = "commit" => pager.eState = "LOCKED"
            BY <1>1, <4>2 DEF WholeInv, Flow, Idle
          <6>2. pager.dbFileSize \in Nat /\ pager.dbSize \in Nat
            BY <1>4 DEF PagerType, Sizes
          <6>3. QED
            BY <1>1, <1>6, <4>2, <6>1, <6>2
        <5>2. QED
          BY <1>12, <4>1, <4>2, <5>1
      <4>3. CASE pager.eState = "FINISHED" /\ J[1].orig <= pager.dbSize /\ MagicAt(jrnl.safe, 1)
                 /\ ImageNow(db.vis, jrnl.safe) = Base
        <5>1. pager'.dbSize = pager.dbSize
          <6>1. pc.task = "commit"
            BY <1>1, <4>3 DEF WholeInv, Flow, Idle
          <6>2. QED
            BY <1>5, <6>1
        <5>2. CASE Hot(db.vis, jrnl.safe)
          <6>1. Prev' = ImageNow(db.vis, jrnl.safe)
            BY <1>1, <1>14, <5>2, PrevNext
          <6>2. QED
            BY <4>1, <4>3, <5>1, <6>1
        <5>3. CASE ~Hot(db.vis, jrnl.safe)
          <6>1. Base = FileImage(db.vis)
            BY <4>3, <5>3 DEF ImageNow
          <6>2. QED
            BY <1>12, <4>1, <4>3, <5>1, <6>1
        <5>4. QED
          BY <5>2, <5>3
      <4>4. QED
        BY <4>1, <4>2, <4>3
    <3>3. QED
      BY <3>1, <3>2
  <2>2. \A J \in Survivors(gone', Junk) :
            /\ ImageNow(db'.vis, J) \in {Base', Prev'}
            /\ MagicAt(J, 1) => J[1].orig <= Len(db'.vis) /\ (pc'.at = "shrink" => J[1].orig <= pager'.dbSize)
    BY <1>1, <1>14, <2>1
  <2>3. QED
    BY <2>2 DEF GoneRight
<1>15. QED
  BY <1>1, <1>10, <1>11, <1>13, <1>14 DEF CrashNow

\* Calls of a connection that writes no file.
LEMMA QuietSteps ==
    ASSUME WholeInv, WholeInv', CrashNow, Base' = Base,
           OpenSavepoint \/ Release \/ Spill \/ Unlock \/ Rollback \/ (CommitPhaseOne /\ pager.eState = "LOCKED")
    PROVE  CrashNow'
<1>1. PagerType(pager) /\ pager.eState # "ERROR" /\ pc.at # "mustRollBack"
  BY DEF WholeInv, Basics, CrashNow, SyncedFiles
<1>2. CASE OpenSavepoint
  <2>1. /\ pc = Idle /\ pc' = pc /\ pager.eState \in {"LOCKED", "CACHEMOD", "DBMOD"}
        /\ \E a : pager' = [pager EXCEPT !.aSavepoint = a]
        /\ db' = db /\ jrnl' = jrnl /\ gone' = gone
    BY <1>2 DEF OpenSavepoint
  <2>2. /\ pager'.eState = pager.eState /\ pager'.dbOrigSize = pager.dbOrigSize
        /\ pager'.journalHdr = pager.journalHdr /\ pager'.header = pager.header
    BY <1>1, <2>1 DEF PagerType, Fields
  <2>3. QED
    BY <2>1, <2>2, QuietCrash, IdleFacts
<1>3. CASE Release
  <2>1. /\ pc = Idle /\ pc' = pc /\ pager.eState \in Writer
        /\ \E a, b : pager' = [pager EXCEPT !.aSavepoint = a, !.sub = b]
        /\ db' = db /\ jrnl' = jrnl /\ gone' = gone
    BY <1>3 DEF Release
  <2>2. /\ pager'.eState = pager.eState /\ pager'.dbOrigSize = pager.dbOrigSize
        /\ pager'.journalHdr = pager.journalHdr /\ pager'.header = pager.header
    BY <1>1, <2>1 DEF PagerType, Fields
  <2>3. pager.eState \in {"LOCKED", "CACHEMOD", "DBMOD"}
    BY <2>1, IdleFacts DEF WholeInv, Flow, Writer
  <2>4. QED
    BY <2>1, <2>2, <2>3, QuietCrash, IdleFacts
<1>4. CASE Spill
  <2>1. pc = Idle /\ pager.eState \in {"LOCKED", "CACHEMOD", "DBMOD"} /\ pager' = pager /\ db' = db /\ jrnl' = jrnl /\ gone' = gone
        /\ pc'.at \in {"syncRecords", "writePages"}
    BY <1>4 DEF Spill
  <2>2. QED
    BY <2>1, QuietCrash
<1>5. CASE Unlock
  <2>1. pc = Idle /\ pc' = pc /\ pager.eState = "READER" /\ pager' = Unlocked(pager) /\ db' = db /\ jrnl' = jrnl /\ gone' = gone
    BY <1>1, <1>5 DEF Unlock
  <2>2. QED
    BY <2>1, QuietCrash
<1>6. CASE Rollback
  <2>1. pc = Idle /\ pager.eState \in {"LOCKED", "CACHEMOD", "DBMOD"} /\ pager' = pager /\ db' = db /\ jrnl' = jrnl /\ gone' = gone
        /\ pc' = At(IF pager.eState = "LOCKED" THEN "finalize" ELSE "playback", "rollback")
    BY <1>1, <1>6 DEF Rollback
  <2>2. pc'.at = "playback" \/ (pc'.at = "finalize" /\ pager.eState = "LOCKED")
    BY <2>1 DEF At
  <2>3. QED
    BY <2>1, <2>2, QuietCrash
<1>7. CASE CommitPhaseOne /\ pager.eState = "LOCKED"
  <2>1. pc = Idle /\ pager' = pager /\ db' = db /\ jrnl' = jrnl /\ gone' = gone /\ pc' = At("finalize", "commit")
    BY <1>7 DEF CommitPhaseOne
  <2>2. pc'.at = "finalize"
    BY <2>1 DEF At
  <2>3. QED
    BY <1>7, <2>1, <2>2, QuietCrash
<1>8. QED
  BY <1>2, <1>3, <1>4, <1>5, <1>6, <1>7

\* What a power failure may leave is known at every step, as long as no call failed.
LEMMA StepCrash ==
    ASSUME WholeInv, BaseRight, CrashRight, [Next]_vars
    PROVE  CrashRight' /\ (crashes' # crashes => (Calm => Base' \in {Base, Prev}))
<1>1. WholeInv'
  BY StepWhole
<1>2. CASE PowerFailure
  <2>1. Calm' => Calm
    BY <1>2 DEF PowerFailure, Calm, FullSync
  <2>2. QED
    BY <1>2, <2>1, PowerFailureCrash DEF CrashRight
<1>3. CASE UNCHANGED vars
  BY <1>3, StutterCrash DEF vars
<1>4. CASE ~PowerFailure /\ Next
  <2>1. /\ crashes' = crashes /\ setting' = setting
        /\ faults' = faults \/ faults' = faults + 1
    BY <1>4 DEF Next, SharedLock, Begin, ChangePage, AddPage, ChangeFails, OpenSavepoint, Release, RollbackTo,
           RollbackToStart, RollbackToFails, CommitPhaseOne, Spill, Rollback, Playback, SyncRecords, WriteCount,
           SyncCount, WritePages, SyncDb, Finalize, Shrink, Unlock, MayFail
  <2>2. ASSUME Calm' PROVE CrashNow'
    <3>1. faults' = faults
      <4>1. faults \in Nat /\ faults' = 0
        BY <2>2 DEF Calm, WholeInv, Basics
      <4>2. QED
        BY <2>1, <4>1
    <3>2. Calm /\ OwnRecords /\ OwnRecords'
      BY <2>1, <2>2, <3>1, CalmSteps
    <3>3. CrashNow
      BY <3>2 DEF CrashRight
    <3>4. ~MayFail
      BY <2>2, CalmSteps
    <3>5. CASE OpenSavepoint \/ Release \/ Spill \/ Unlock
      BY <1>1, <3>3, <3>5, QuietBase, QuietSteps
    <3>6. CASE Rollback
      BY <1>1, <3>3, <3>6, RollbackBase, QuietSteps
    <3>7. CASE CommitPhaseOne
      BY <1>1, <2>1, <3>2, <3>3, <3>7, CommitPhaseOneBase, QuietSteps, MovesCrash
    <3>8. CASE Begin \/ ChangePage \/ AddPage
      BY <1>1, <2>1, <3>2, <3>3, <3>8, BeginBase, ChangePageBase, MovesCrash
    <3>9. CASE RollbackTo \/ RollbackToStart
      BY <1>1, <2>1, <3>2, <3>3, <3>9, RollbackToBase, RollbackToStartBase, MovesCrash
    <3>10. CASE ChangeFails \/ RollbackToFails
      BY <3>4, <3>10 DEF ChangeFails, RollbackToFails
    <3>11. CASE SharedLock
      BY <1>1, <3>3, <3>11, SharedLockBase, SharedLockCrash
    <3>12. CASE Playback
      BY <1>1, <2>2, <3>2, <3>3, <3>12, PlaybackBase, PlaybackCrash
    <3>13. CASE SyncRecords \/ WriteCount \/ SyncCount
      BY <1>1, <2>2, <3>3, <3>13, SyncRecordsCrash, WriteCountCrash, SyncCountCrash
    <3>14. CASE WritePages \/ SyncDb
      BY <1>1, <2>2, <3>3, <3>14, WritePagesCrash, SyncDbCrash
    <3>15. CASE Finalize
      BY <1>1, <2>2, <3>3, <3>15, FinalizeCrash
    <3>16. CASE Shrink
      BY <1>1, <2>2, <3>2, <3>3, <3>16, ShrinkBase, ShrinkCrash
    <3>17. QED
      BY <1>4, <3>5, <3>6, <3>7, <3>8, <3>9, <3>10, <3>11, <3>12, <3>13, <3>14, <3>15, <3>16 DEF Next
  <2>3. QED
    BY <2>1, <2>2 DEF CrashRight
<1>5. QED
  BY <1>2, <1>3, <1>4

AtomicInv == WholeInv /\ BaseRight /\ CrashRight /\ crashes \in Nat

\* CommittedKept for any pages, values, savepoints and faults: the committed image changes only
\* when the removal of the journal ends a commit, and then to what its connection saw, and in a
\* power failure, which leaves it or brings back the image before the last commit as long as no
\* call failed and the records are synced before their count (synchronous=FULL).
THEOREM CommitsAreAtomic == Spec => CommittedKept
<1>1. Init => AtomicInv
  <2> SUFFICES ASSUME Init PROVE AtomicInv
    OBVIOUS
  <2>1. crashes \in Nat
    BY DEF Init
  <2>2. QED
    BY <2>1, InitWhole, InitBase, InitCrash DEF AtomicInv
<1>2. AtomicInv /\ [Next]_vars => AtomicInv' /\ BaseKept /\ (crashes' # crashes => (Calm => Base' \in {Base, Prev}))
  <2> SUFFICES ASSUME AtomicInv, [Next]_vars
               PROVE  AtomicInv' /\ BaseKept /\ (crashes' # crashes => (Calm => Base' \in {Base, Prev}))
    OBVIOUS
  <2>1. WholeInv /\ BaseRight /\ CrashRight /\ crashes \in Nat
    BY DEF AtomicInv
  <2>2. WholeInv'
    BY <2>1, StepWhole
  <2>3. BaseKept /\ BaseRight' /\ crashes' \in Nat
    BY <2>1, StepBase
  <2>4. CrashRight' /\ (crashes' # crashes => (Calm => Base' \in {Base, Prev}))
    BY <2>1, StepCrash
  <2>5. QED
    BY <2>2, <2>3, <2>4 DEF AtomicInv
<1>3. BaseKept /\ (crashes' # crashes => (Calm => Base' \in {Base, Prev})) =>
         (OwnRecords' =>
             \/ Base' = Base
             \/ pc.at = "finalize" /\ pc.task = "commit" /\ Base' = Image(pager.cache, db.vis, pager.dbSize)
             \/ crashes' # crashes /\ (Calm => Base' \in {Base, Prev}))
  BY DEF BaseKept, Ends
<1>4. QED
  BY <1>1, <1>2, <1>3, PTL DEF Spec, CommittedKept

=============================================================================
